---- MODULE Spec2Model ----
(***************************************************************************)
(* A model of the core of pankaspe/iron (src-tauri/src/core): the input    *)
(* validator (task.rs, error.rs), the per-image pipeline and the parallel  *)
(* orchestrator (image_processing.rs) and the thumbnail cache              *)
(* (thumbnail.rs).                                                         *)
(*                                                                         *)
(* The module holds several specifications over one variable list.  Each   *)
(* specification moves the variables of one component and leaves the       *)
(* others at their initial values:                                         *)
(*   SpecTask      ImageTask::new applied to one file of the file system   *)
(*   SpecPipeline  process_single_image, stage by stage, on one task       *)
(*   SpecBatch     optimize_images / ImageProcessor::run_parallel          *)
(*   SpecBatchFair SpecBatch with the pool running every enabled step      *)
(*   SpecCache     ThumbnailCache::generate_thumbnail called by workers    *)
(*   SpecJpegIcc, SpecDetect, SpecIccDescription  the profile inspector    *)
(*   SpecIfd0, SpecExif, SpecInject  the metadata writer                   *)
(*   SpecColor, SpecResize, SpecSize  colour stage, resize law, size checks*)
(*   SpecExpand    the directory expansion of the metadata commands        *)
(*   SpecProgressive  get_image_metadata_progressive, step by step         *)
(*   SpecOutput    the output files of the tasks of a batch                *)
(***************************************************************************)
EXTENDS Integers, Sequences, FiniteSets, TLC

VARIABLES
    \* --- task validation (task.rs) ---
    vfile,              \* what the file system answers for the path validated
    vtask,              \* the ImageTask built from it, or NoTask
    \* --- one run of process_single_image (image_processing.rs) ---
    penv,               \* what each fallible stage of the run answers
    pstage,             \* the stage the run is at
    pimg,               \* the pixels held: "none", "original", "converted"
    presult,            \* "running", "Some", "None", "panic"
    ptrace,             \* the stages executed so far, in order
    \* --- optimize_images / run_parallel (image_processing.rs) ---
    bpc,                \* "idle", "running", "returned"
    paths,              \* the listed entries of the path list
    padLen,             \* further entries of the list, all naming PadPath
    ret,                \* what optimize_images returned: "none", "Ok", "Err"
    tasks,              \* ImageProcessor.tasks (for the listed entries)
    total_valid_tasks,  \* ImageProcessor.total_valid_tasks
    current_progress,   \* the counter behind the mutex
    tstate,             \* per valid task: its position in the worker closure
    events,             \* the optimization-progress events, in emission order
    stderr,             \* the lines written with eprintln!, as a set
    \* --- thumbnail cache (thumbnail.rs) ---
    now,                \* SystemTime::now(), in seconds
    srcMtime,           \* per source file: its modification time, in seconds
    cacheFiles,         \* per cache key: the file <key>.webp of the cache dir
    calls,              \* per worker: its generate_thumbnail call
    lastRet,            \* per source file: the last path returned, and the
                        \* modification time of the source that call read
    \* --- functions of their arguments alone ---
    arg,                \* the argument the function is called with
    res                 \* what it returned, or NoRes before the call

taskVars  == <<vfile, vtask>>
pipeVars  == <<penv, pstage, pimg, presult, ptrace>>
batchVars == <<bpc, paths, padLen, ret, tasks, total_valid_tasks,
               current_progress, tstate, events, stderr>>
cacheVars == <<now, srcMtime, cacheFiles, calls, lastRet>>
fnVars    == <<arg, res>>
coreVars  == <<taskVars, pipeVars, batchVars, cacheVars>>
vars      == <<taskVars, pipeVars, batchVars, cacheVars, fnVars>>

NoArg == <<>>

NoRes == <<"pending">>

\* No function has been called.
IdleFn == arg = NoArg /\ res = NoRes

Min(a, b) == IF a <= b THEN a ELSE b

Range(s) == {s[i] : i \in 1..Len(s)}

(***************************************************************************)
(* task.rs: ImageTask::new                                                 *)
(***************************************************************************)

\* task.rs:7-9
MAX_FILE_SIZE == 1000000000
MIN_FILE_SIZE == 100
MAX_PATH_LENGTH == 4096

NoTask == [kind |-> "none"]

\* The answers of the file system and of the path to the calls ImageTask::new
\* makes.  chars and bytes are the path's length in characters and in bytes
\* of UTF-8 (str::len counts bytes); ext is what ImageFormat::from_path
\* makes of the extension; magic is what the leading bytes of the content
\* spell.
PathShapes ==
    { [chars |-> 20,   bytes |-> 20],
      [chars |-> 4096, bytes |-> 4096],
      [chars |-> 4097, bytes |-> 4097],
      [chars |-> 2000, bytes |-> 6000] }

FileSizes == {0, 3, MIN_FILE_SIZE - 1, MIN_FILE_SIZE, 5000,
              MAX_FILE_SIZE, MAX_FILE_SIZE + 1}

Extensions == {"Jpeg", "Png", "Gif", "unknown"}

Magics == {"Jpeg", "Png", "other"}

FileAnswers ==
    [ shape    : PathShapes,
      utf8     : {TRUE},          \* every caller builds the path from a String
      exists   : BOOLEAN,
      is_file  : BOOLEAN,
      metadata : BOOLEAN,         \* fs::metadata succeeds
      size     : FileSizes,
      readonly : BOOLEAN,
      readable : BOOLEAN,         \* fs::read / File::open + read succeed
      ext      : Extensions,
      magic    : Magics ]

\* What the file system can answer: a path that does not exist is no file
\* and has no metadata, and only a regular file has content to read.
Consistent(f) ==
    /\ f.is_file => f.exists
    /\ f.metadata => f.exists
    /\ f.is_file => f.metadata
    /\ f.readable => f.is_file

Invalid(f, reason) == [kind |-> "Invalid", reason |-> reason]

Valid(f) == [kind |-> "Valid", format |-> f.ext, size_bytes |-> f.size]

\* task.rs:129-161.  The buffer holds 16 bytes; a read of a regular file
\* returns as many as the file has, up to 16.
validate_file_format(f) ==
    LET bytes_read == Min(16, f.size) IN
    IF ~f.readable THEN "Cannot open file"
    ELSE IF bytes_read < 4 THEN "File too small to validate"
    ELSE IF f.ext = "Jpeg" /\ f.magic # "Jpeg"
        THEN "File does not have valid JPEG signature"
    ELSE IF f.ext = "Png" /\ (bytes_read < 8 \/ f.magic # "Png")
        THEN "File does not have valid PNG signature"
    ELSE "Ok"

\* task.rs:26-126
ImageTask_new(f) ==
    IF ~f.utf8 THEN Invalid(f, "Invalid UTF-8 in path")
    ELSE IF f.shape.bytes > MAX_PATH_LENGTH
        THEN Invalid(f, "Path too long (max 4096 characters)")
    ELSE IF ~f.exists THEN Invalid(f, "File not found")
    ELSE IF ~f.is_file THEN Invalid(f, "Path is not a file")
    ELSE IF ~f.metadata THEN Invalid(f, "Could not read metadata")
    ELSE IF f.size < MIN_FILE_SIZE THEN Invalid(f, "File too small")
    ELSE IF f.size > MAX_FILE_SIZE THEN Invalid(f, "File exceeds limit")
    ELSE IF f.readonly /\ ~f.readable THEN Invalid(f, "File is not readable")
    ELSE IF f.ext \in {"Jpeg", "Png"}
        THEN IF validate_file_format(f) # "Ok"
             THEN Invalid(f, "Format validation failed")
             ELSE Valid(f)
    ELSE IF f.ext = "unknown"
        THEN Invalid(f, "Could not determine image format")
    ELSE Invalid(f, "Unsupported format")

\* task.rs:172-174
is_valid(t) == t.kind = "Valid"

\* task.rs:177-182
error_reason(t) == IF t.kind = "Invalid" THEN <<t.reason>> ELSE <<>>

InitTask ==
    /\ vfile \in {f \in FileAnswers : Consistent(f)}
    /\ vtask = NoTask

IdleTask ==
    /\ vfile = [shape |-> [chars |-> 20, bytes |-> 20], utf8 |-> TRUE,
                exists |-> FALSE, is_file |-> FALSE, metadata |-> FALSE,
                size |-> 0, readonly |-> FALSE, readable |-> FALSE,
                ext |-> "unknown", magic |-> "other"]
    /\ vtask = NoTask

\* ImageProcessor::new maps ImageTask::new over the paths
\* (image_processing.rs:313-317); here on one path.
Validate ==
    /\ vtask = NoTask
    /\ vtask' = ImageTask_new(vfile)
    /\ UNCHANGED <<vfile, pipeVars, batchVars, cacheVars, fnVars>>

(***************************************************************************)
(* image_processing.rs: ImageProcessor::process_single_image               *)
(*                                                                         *)
(* The run is a sequence of stages; each fallible stage draws its answer   *)
(* when it runs and records it in penv.  An early return ends the run.     *)
(***************************************************************************)

Stages == <<"exists", "decode", "detect", "convert", "resize", "dest",
            "encode", "write", "stat", "exif">>

Unset == "-"

NoEnv == [s \in Range(Stages) |-> Unset]

\* color_profile.rs:9-15, and "fault": the slice of parse_icc_description
\* (color_profile.rs:196-197) and those of extract_jpeg_icc_profile and
\* extract_png_icc_profile (color_profile.rs:83, 124) panic on a profile
\* whose description has text length 0, on a segment length below 2 and on
\* a chunk length that runs past the data.
ProfileAnswers == {"Srgb", "AdobeRgb", "DisplayP3", "ProPhotoRgb", "Unknown",
                   "fault"}

\* color_profile.rs:29-31
is_web_safe(profile) == profile = "Srgb"

\* settings.rs:87-90 with what the checks of image_processing.rs:537-551 find
DestAnswers == {"SameFolder", "CustomFolder", "CustomMissing", "CustomNotDir"}

\* The answers a stage can give.
Answers(stage) ==
    CASE stage = "exists"  -> {"ok", "missing"}
      [] stage = "decode"  -> {"ok", "error", "dimensions"}
      [] stage = "detect"  -> ProfileAnswers
      [] stage = "convert" -> {"ok", "error"}
      [] stage = "resize"  -> {"ok", "zero"}
      [] stage = "dest"    -> DestAnswers
      [] stage = "encode"  -> {"ok", "error"}
      [] stage = "write"   -> {"ok", "error"}
      [] stage = "stat"    -> {"ok", "error"}
      [] stage = "exif"    -> {"off", "ok", "error"}

InitPipeline ==
    /\ penv = NoEnv
    /\ pstage = "exists"
    /\ pimg = "none"
    /\ presult = "running"
    /\ ptrace = <<>>

IdlePipeline ==
    /\ penv = NoEnv
    /\ pstage = "idle"
    /\ pimg = "none"
    /\ presult = "running"
    /\ ptrace = <<>>

\* One stage ran and answered a; the run goes on at stage next.
Ran(stage, a, next) ==
    /\ penv' = [penv EXCEPT ![stage] = a]
    /\ ptrace' = Append(ptrace, stage)
    /\ pstage' = next

\* The run ends with result r.
Return(r) == presult' = r

Continue == presult' = presult

\* image_processing.rs:384-387
PExists ==
    /\ pstage = "exists"
    /\ \E a \in Answers("exists") :
        /\ Ran("exists", a, IF a = "ok" THEN "decode" ELSE "end")
        /\ IF a = "ok" THEN Continue ELSE Return("None")
    /\ UNCHANGED <<pimg, taskVars, batchVars, cacheVars, fnVars>>

\* image_processing.rs:389-466
PDecode ==
    /\ pstage = "decode"
    /\ \E a \in Answers("decode") :
        /\ Ran("decode", a, IF a = "ok" THEN "detect" ELSE "end")
        /\ IF a = "ok" THEN Continue ELSE Return("None")
        /\ pimg' = IF a = "ok" THEN "original" ELSE pimg
    /\ UNCHANGED <<taskVars, batchVars, cacheVars, fnVars>>

\* image_processing.rs:469-470: a web-safe profile skips the conversion
PDetect ==
    /\ pstage = "detect"
    /\ \E a \in Answers("detect") :
        /\ Ran("detect", a,
               IF a = "fault" THEN "end"
               ELSE IF is_web_safe(a) THEN "resize" ELSE "convert")
        /\ IF a = "fault" THEN Return("panic") ELSE Continue
    /\ UNCHANGED <<pimg, taskVars, batchVars, cacheVars, fnVars>>

\* image_processing.rs:488-508: on Err the original pixels are kept
PConvert ==
    /\ pstage = "convert"
    /\ \E a \in Answers("convert") :
        /\ Ran("convert", a, "resize")
        /\ pimg' = IF a = "ok" THEN "converted" ELSE pimg
    /\ Continue
    /\ UNCHANGED <<taskVars, batchVars, cacheVars, fnVars>>

\* image_processing.rs:514-520
PResize ==
    /\ pstage = "resize"
    /\ \E a \in Answers("resize") :
        /\ Ran("resize", a, IF a = "ok" THEN "dest" ELSE "end")
        /\ IF a = "ok" THEN Continue ELSE Return("None")
    /\ UNCHANGED <<pimg, taskVars, batchVars, cacheVars, fnVars>>

\* PDest going on to the encoder whatever the checks of the folder found.
PDest_unchecked ==
    /\ pstage = "dest"
    /\ \E a \in Answers("dest") : Ran("dest", a, "encode")
    /\ Continue
    /\ UNCHANGED <<pimg, taskVars, batchVars, cacheVars, fnVars>>

\* image_processing.rs:523-555
PDest ==
    /\ pstage = "dest"
    /\ \E a \in Answers("dest") :
        LET ok == a \in {"SameFolder", "CustomFolder"} IN
        /\ Ran("dest", a, IF ok THEN "encode" ELSE "end")
        /\ IF ok THEN Continue ELSE Return("None")
    /\ UNCHANGED <<pimg, taskVars, batchVars, cacheVars, fnVars>>

\* image_processing.rs:558-565
PEncode ==
    /\ pstage = "encode"
    /\ \E a \in Answers("encode") :
        /\ Ran("encode", a, IF a = "ok" THEN "write" ELSE "end")
        /\ IF a = "ok" THEN Continue ELSE Return("None")
    /\ UNCHANGED <<pimg, taskVars, batchVars, cacheVars, fnVars>>

\* image_processing.rs:568-575
PWrite ==
    /\ pstage = "write"
    /\ \E a \in Answers("write") :
        /\ Ran("write", a, IF a = "ok" THEN "stat" ELSE "end")
        /\ IF a = "ok" THEN Continue ELSE Return("None")
    /\ UNCHANGED <<pimg, taskVars, batchVars, cacheVars, fnVars>>

\* image_processing.rs:577
PStat ==
    /\ pstage = "stat"
    /\ \E a \in Answers("stat") :
        /\ Ran("stat", a, IF a = "ok" THEN "exif" ELSE "end")
        /\ IF a = "ok" THEN Continue ELSE Return("None")
    /\ UNCHANGED <<pimg, taskVars, batchVars, cacheVars, fnVars>>

\* image_processing.rs:585-618: "off" when preserve_all is not set; an Err of
\* copy_exif is logged and the result is returned all the same
PExif ==
    /\ pstage = "exif"
    /\ \E a \in Answers("exif") : Ran("exif", a, "end")
    /\ Return("Some")
    /\ UNCHANGED <<pimg, taskVars, batchVars, cacheVars, fnVars>>

NextPipeline ==
    \/ PExists \/ PDecode \/ PDetect \/ PConvert \/ PResize
    \/ PDest \/ PEncode \/ PWrite \/ PStat \/ PExif

\* What process_single_image hands to catch_unwind
\* (image_processing.rs:345-347): Some, None, or a panic.
PipelineResults == {"Some", "None", "panic"}

(***************************************************************************)
(* image_processing.rs: optimize_images, ImageProcessor::new and           *)
(* ImageProcessor::run_parallel; error.rs: InputValidator::validate_paths  *)
(*                                                                         *)
(* A path list is its listed entries (paths) followed by padLen entries    *)
(* that all name PadPath, a file that does not exist: lists of 10,000 and  *)
(* 10,001 entries are then values the model can hold.  The lists are those *)
(* of up to MaxListed entries and those of 9,999 to 10,001.                *)
(***************************************************************************)

\* The longest listed part of a path list, and the threads of the pool.
MaxListed == 3
Workers == 2

\* image_processing.rs:286
MAX_PATHS == 10000

\* error.rs:142 and error.rs:153
VALIDATOR_MAX_PATHS == 10000
VALIDATOR_MAX_PATH_LENGTH == 4096

PadPath == "file_n.jpg"

BatchPaths == {"a.jpg", "a.png", "b.jpg", "gone.jpg"}

PadChoices == {0, MAX_PATHS - 1, MAX_PATHS}

\* The listed parts: up to MaxListed paths, no path twice.
PathLists ==
    {l \in UNION {[1..n -> BatchPaths] : n \in 0..MaxListed} :
        \A i, j \in 1..Len(l) : l[i] = l[j] => i = j}

\* The file system the batch runs on: three images and two names of no file.
FileOf(p) ==
    LET present == [shape |-> [chars |-> 20, bytes |-> 20], utf8 |-> TRUE,
                    exists |-> TRUE, is_file |-> TRUE, metadata |-> TRUE,
                    size |-> 5000, readonly |-> FALSE, readable |-> TRUE,
                    ext |-> "Jpeg", magic |-> "Jpeg"]
        absent  == [present EXCEPT !.exists = FALSE, !.is_file = FALSE,
                                   !.metadata = FALSE, !.readable = FALSE,
                                   !.size = 0]
    IN  CASE p \in {"a.jpg", "b.jpg"} -> present
          [] p = "a.png" -> [present EXCEPT !.ext = "Png", !.magic = "Png"]
          [] OTHER       -> absent

ListLen(list, pad) == Len(list) + pad

\* error.rs:137-162; the length of a path is String::len
validate_paths(list, pad) ==
    IF ListLen(list, pad) = 0 THEN "No paths provided"
    ELSE IF ListLen(list, pad) > VALIDATOR_MAX_PATHS
        THEN "Too many files (max 10000)"
    ELSE IF \E p \in Range(list) \cup (IF pad > 0 THEN {PadPath} ELSE {}) :
                FileOf(p).shape.bytes = 0
        THEN "Empty path provided"
    ELSE IF \E p \in Range(list) \cup (IF pad > 0 THEN {PadPath} ELSE {}) :
                FileOf(p).shape.bytes > VALIDATOR_MAX_PATH_LENGTH
        THEN "Path too long"
    ELSE "Ok"

\* RejectsList with the bound off by one.
RejectsList_offbyone(list, pad) ==
    \/ ListLen(list, pad) = 0
    \/ ListLen(list, pad) >= MAX_PATHS

\* image_processing.rs:282-288: the two checks made before anything else
RejectsList(list, pad) ==
    \/ ListLen(list, pad) = 0
    \/ ListLen(list, pad) > MAX_PATHS

\* image_processing.rs:313-317
NewTasks(list) ==
    [i \in 1..Len(list) |->
        [path |-> list[i], task |-> ImageTask_new(FileOf(list[i]))]]

\* image_processing.rs:334-338: the tasks run_parallel hands to the pool
ValidTasks(ts) == {i \in 1..Len(ts) : is_valid(ts[i].task)}

\* image_processing.rs:319-322
CountValid(ts) == Cardinality(ValidTasks(ts))

Pending == [pc |-> "pending", result |-> "none", current |-> 0]

IdleBatch ==
    /\ bpc = "idle"
    /\ paths = <<>>
    /\ padLen = 0
    /\ ret = "none"
    /\ tasks = <<>>
    /\ total_valid_tasks = 0
    /\ current_progress = 0
    /\ tstate = <<>>
    /\ events = <<>>
    /\ stderr = {}

InitBatch == IdleBatch

\* image_processing.rs:276-293: the command is invoked with a path list.  A
\* rejected list returns Err at once; otherwise ImageProcessor::new builds
\* the tasks and run_parallel starts with the counter at 0.
optimize_images ==
    /\ bpc = "idle"
    /\ \E list \in PathLists, pad \in PadChoices :
        /\ ListLen(list, pad) <= MAX_PATHS + 1
        /\ paths' = list
        /\ padLen' = pad
        /\ IF RejectsList(list, pad)
           THEN /\ bpc' = "returned"
                /\ ret' = "Err"
                /\ UNCHANGED <<tasks, total_valid_tasks, tstate>>
           ELSE /\ bpc' = "running"
                /\ ret' = ret
                /\ tasks' = NewTasks(list)
                /\ total_valid_tasks' = CountValid(NewTasks(list))
                /\ tstate' = [i \in 1..Len(list) |-> Pending]
    /\ current_progress' = 0
    /\ UNCHANGED <<events, stderr, taskVars, pipeVars, cacheVars, fnVars>>

Busy == {i \in ValidTasks(tasks) : tstate[i].pc \in {"processed", "counted"}}

\* Process without catch_unwind: a panic unwinds through for_each and the
\* blocking task, and optimize_images returns the join error.
Process_uncaught(i) ==
    /\ bpc = "running"
    /\ i \in ValidTasks(tasks)
    /\ tstate[i].pc = "pending"
    /\ Cardinality(Busy) < Workers
    /\ \E r \in PipelineResults :
        /\ tstate' = [tstate EXCEPT ![i] = [@ EXCEPT !.pc = "processed",
                                                     !.result = r]]
        /\ bpc' = IF r = "panic" THEN "returned" ELSE bpc
        /\ ret' = IF r = "panic" THEN "Err" ELSE ret
    /\ UNCHANGED <<paths, padLen, tasks, total_valid_tasks,
                   current_progress, events, stderr,
                   taskVars, pipeVars, cacheVars, fnVars>>

\* image_processing.rs:340-347: a free thread of the pool takes a valid task
\* and runs process_single_image under catch_unwind
Process(i) ==
    /\ bpc = "running"
    /\ i \in ValidTasks(tasks)
    /\ tstate[i].pc = "pending"
    /\ Cardinality(Busy) < Workers
    /\ \E r \in PipelineResults :
        tstate' = [tstate EXCEPT ![i] = [@ EXCEPT !.pc = "processed",
                                                  !.result = r]]
    /\ UNCHANGED <<bpc, paths, padLen, ret, tasks, total_valid_tasks,
                   current_progress, events, stderr,
                   taskVars, pipeVars, cacheVars, fnVars>>

\* LockIncrement reading the counter before it increments it.
LockIncrement_stale(i) ==
    /\ bpc = "running"
    /\ i \in ValidTasks(tasks)
    /\ tstate[i].pc = "processed"
    /\ current_progress' = current_progress + 1
    /\ tstate' = [tstate EXCEPT ![i] = [@ EXCEPT !.pc = "counted",
                                      !.current = current_progress]]
    /\ UNCHANGED <<bpc, paths, padLen, ret, tasks, total_valid_tasks,
                   events, stderr, taskVars, pipeVars, cacheVars, fnVars>>

\* image_processing.rs:349-352: lock, increment, read, drop
LockIncrement(i) ==
    /\ bpc = "running"
    /\ i \in ValidTasks(tasks)
    /\ tstate[i].pc = "processed"
    /\ current_progress' = current_progress + 1
    /\ tstate' = [tstate EXCEPT ![i] = [@ EXCEPT !.pc = "counted",
                                      !.current = current_progress + 1]]
    /\ UNCHANGED <<bpc, paths, padLen, ret, tasks, total_valid_tasks,
                   events, stderr, taskVars, pipeVars, cacheVars, fnVars>>

ProgressPayload(i) ==
    [path |-> tasks[i].path, current |-> tstate[i].current,
     total |-> total_valid_tasks]

\* image_processing.rs:354-374: after the lock is dropped, emit or log
Report(i) ==
    /\ bpc = "running"
    /\ i \in ValidTasks(tasks)
    /\ tstate[i].pc = "counted"
    /\ tstate' = [tstate EXCEPT ![i] = [@ EXCEPT !.pc = "done"]]
    /\ CASE tstate[i].result = "Some" ->
              /\ events' = Append(events, ProgressPayload(i))
              /\ stderr' = stderr
         [] tstate[i].result = "None" ->
              /\ events' = events
              /\ stderr' = stderr \cup
                    {[task |-> i, path |-> tasks[i].path,
                      line |-> "Failed to process"]}
         [] tstate[i].result = "panic" ->
              /\ events' = events
              /\ stderr' = stderr \cup
                    {[task |-> i, path |-> tasks[i].path,
                      line |-> "Critical error (panic)"]}
    /\ UNCHANGED <<bpc, paths, padLen, ret, tasks, total_valid_tasks,
                   current_progress, taskVars, pipeVars, cacheVars, fnVars>>

AllDone == \A i \in ValidTasks(tasks) : tstate[i].pc = "done"

\* image_processing.rs:377-380 and 295-299: for_each returns when every task
\* has run, run_parallel returns, the blocking task is joined
optimize_images_return ==
    /\ bpc = "running"
    /\ AllDone
    /\ bpc' = "returned"
    /\ ret' = "Ok"
    /\ UNCHANGED <<paths, padLen, tasks, total_valid_tasks, current_progress,
                   tstate, events, stderr, taskVars, pipeVars, cacheVars, fnVars>>

NextBatch ==
    \/ optimize_images
    \/ \E i \in 1..Len(tasks) : Process(i)
    \/ \E i \in 1..Len(tasks) : LockIncrement(i)
    \/ \E i \in 1..Len(tasks) : Report(i)
    \/ optimize_images_return

(***************************************************************************)
(* thumbnail.rs: ThumbnailCache                                            *)
(*                                                                         *)
(* Time is in seconds.  A cache key is the pair hashed by                  *)
(* generate_cache_key, (canonical path, modification time in seconds): the *)
(* 64-bit hash is taken to be free of collisions.  cacheFiles maps the     *)
(* keys whose file <key>.webp exists to that file: whether its content is  *)
(* complete, its modification time, and the writers holding it open.       *)
(* fs::write is two steps, create-or-truncate and write; a file removed    *)
(* while a writer holds it open is gone from the directory, and what that  *)
(* writer writes is lost with it.                                          *)
(***************************************************************************)

\* thumbnail.rs:12
MAX_THUMBNAIL_AGE_DAYS == 7

\* thumbnail.rs:89
max_age == MAX_THUMBNAIL_AGE_DAYS * 24 * 60 * 60

\* The instants the clock shows: the first seconds, and the seconds from
\* max_age on.
Slack == 1

Instants == (0..Slack) \cup (max_age..(max_age + Slack))

\* The workers; each makes one call.
CacheWorkers == {"w1", "w2"}

\* The paths generate_thumbnail is called with: two images, a second path
\* of the first one (a symbolic link), and a file no decoder opens.
CachePaths == {"p1", "link1", "p2", "bad"}

\* thumbnail.rs:62
canonicalize(p) == IF p = "link1" THEN "p1" ELSE p

Sources == {canonicalize(p) : p \in CachePaths}

\* thumbnail.rs:126: image::open succeeds
Decodable(src) == src # "bad"

None == "none"

\* No key yet, no answer yet, and the Err of generate_thumbnail.
NoKey == <<>>

NoRet == <<>>

Err == <<"Err">>

\* generate_cache_key hashing the time of the call instead of the
\* modification time of the source.
generate_cache_key_clock(p) == <<canonicalize(p), now>>

\* thumbnail.rs:45-68
generate_cache_key(p) == <<canonicalize(p), srcMtime[canonicalize(p)]>>

NoCall == [pc |-> "idle", path |-> None, key1 |-> NoKey, key |-> NoKey,
           ret |-> NoRet, work |-> {}, expired |-> FALSE, age |-> -1,
           alone |-> TRUE, prev |-> NoKey, seen1 |-> -1, seen |-> -1]

CacheFile(t) == [complete |-> TRUE, mtime |-> t, writers |-> {}]

\* The cache directory outlives the program: it starts empty or with the
\* thumbnail of p1 an earlier run left.
InitCache ==
    /\ now = 0
    /\ srcMtime = [s \in Sources |-> 0]
    /\ cacheFiles \in {<<>>, (<<"p1", 0>> :> CacheFile(0))}
    /\ calls = [w \in CacheWorkers |-> NoCall]
    /\ lastRet = [s \in Sources |-> NoKey]

IdleCache ==
    /\ now = 0
    /\ srcMtime = [s \in Sources |-> 0]
    /\ cacheFiles = <<>>
    /\ calls = [w \in CacheWorkers |-> NoCall]
    /\ lastRet = [s \in Sources |-> NoKey]

Active(w) == calls[w].pc \notin {"idle", "returned"}

\* The call of w returns r (thumbnail.rs:106, 111-136, 147).
Returns(w, c, r) ==
    /\ calls' = [calls EXCEPT ![w] = [c EXCEPT !.pc = "returned", !.ret = r]]
    /\ lastRet' = IF r = Err THEN lastRet
                  ELSE [lastRet EXCEPT ![canonicalize(c.path)] = <<r[2], c.seen>>]

\* A worker calls generate_thumbnail(p) (image_processing.rs:234-238).
Call(w, p) ==
    /\ calls[w].pc = "idle"
    /\ calls' = [v \in CacheWorkers |->
                    IF v = w
                    THEN [NoCall EXCEPT
                            !.pc = "lookup", !.path = p,
                            !.prev = lastRet[canonicalize(p)],
                            !.alone = \A u \in CacheWorkers \ {w} : ~Active(u)]
                    ELSE IF Active(v) THEN [calls[v] EXCEPT !.alone = FALSE]
                    ELSE calls[v]]
    /\ UNCHANGED <<now, srcMtime, cacheFiles, lastRet,
                   taskVars, pipeVars, batchVars, fnVars>>

\* thumbnail.rs:77-82: the key, and whether the cache file exists
Lookup(w) ==
    /\ calls[w].pc = "lookup"
    /\ LET k == generate_cache_key(calls[w].path) IN
       calls' = [calls EXCEPT ![w] =
                    [@ EXCEPT !.key1 = k, !.key = k,
                              !.seen1 = srcMtime[canonicalize(calls[w].path)],
                              !.seen = srcMtime[canonicalize(calls[w].path)],
                              !.pc = IF k \in DOMAIN cacheFiles
                                     THEN "age" ELSE "generate"]]
    /\ UNCHANGED <<now, srcMtime, cacheFiles, lastRet,
                   taskVars, pipeVars, batchVars, fnVars>>

\* Expired with the comparison at the bound included.
Expired_atleast(age) == age >= max_age

\* thumbnail.rs:90
Expired(age) == age > max_age

\* thumbnail.rs:85-99, 105-107: the age of the cache file decides; when
\* its metadata cannot be read (the file is gone again) the lookup answers
\* with the path all the same
AgeCheck(w) ==
    /\ calls[w].pc = "age"
    /\ LET c == calls[w]
           k == c.key
       IN  IF k \notin DOMAIN cacheFiles
           THEN Returns(w, c, <<"Ok", k>>)
           ELSE LET age == now - cacheFiles[k].mtime IN
                IF Expired(age)
                THEN /\ calls' = [calls EXCEPT ![w] =
                            [c EXCEPT !.pc = "remove", !.age = age,
                                      !.expired = TRUE]]
                     /\ lastRet' = lastRet
                ELSE Returns(w, [c EXCEPT !.age = age], <<"Ok", k>>)
    /\ UNCHANGED <<now, srcMtime, cacheFiles, taskVars, pipeVars, batchVars, fnVars>>

\* A removal that empties the cache directory.
remove_file_all(files, k) == [j \in {} |-> files[j]]

\* What fs::remove_file leaves of the cache directory.
remove_file(files, k) == [j \in DOMAIN files \ {k} |-> files[j]]

\* thumbnail.rs:92-93
Remove(w) ==
    /\ calls[w].pc = "remove"
    /\ cacheFiles' = remove_file(cacheFiles, calls[w].key)
    /\ calls' = [calls EXCEPT ![w] = [@ EXCEPT !.pc = "generate"]]
    /\ UNCHANGED <<now, srcMtime, lastRet, taskVars, pipeVars, batchVars, fnVars>>

\* thumbnail.rs:110-143: the source is checked, decoded and scaled; then
\* the key is computed again
Generate(w) ==
    /\ calls[w].pc = "generate"
    /\ LET c == calls[w] IN
       IF ~Decodable(canonicalize(c.path))
       THEN Returns(w, [c EXCEPT !.work = @ \cup {"decode"}], Err)
       ELSE /\ calls' = [calls EXCEPT ![w] =
                    [c EXCEPT !.pc = "open",
                              !.work = @ \cup {"decode", "resize"},
                              !.key = generate_cache_key(c.path),
                              !.seen = srcMtime[canonicalize(c.path)]]]
            /\ lastRet' = lastRet
    /\ UNCHANGED <<now, srcMtime, cacheFiles, taskVars, pipeVars, batchVars, fnVars>>

\* thumbnail.rs:187-196: encode; fs::write creates the file or truncates it
WriteOpen(w) ==
    /\ calls[w].pc = "open"
    /\ LET k == calls[w].key
           held == IF k \in DOMAIN cacheFiles
                   THEN cacheFiles[k].writers ELSE {}
       IN  cacheFiles' =
               [j \in DOMAIN cacheFiles \cup {k} |->
                   IF j = k
                   THEN [complete |-> FALSE, mtime |-> now,
                         writers |-> held \cup {w}]
                   ELSE cacheFiles[j]]
    /\ calls' = [calls EXCEPT ![w] =
                    [@ EXCEPT !.pc = "write", !.work = @ \cup {"encode"}]]
    /\ UNCHANGED <<now, srcMtime, lastRet, taskVars, pipeVars, batchVars, fnVars>>

\* thumbnail.rs:196, 147: fs::write writes the bytes and closes the file
WriteData(w) ==
    /\ calls[w].pc = "write"
    /\ LET c == calls[w]
           k == c.key
           linked == k \in DOMAIN cacheFiles /\ w \in cacheFiles[k].writers
       IN  /\ cacheFiles' =
                 IF linked
                 THEN [cacheFiles EXCEPT ![k] =
                         [complete |-> TRUE, mtime |-> now,
                          writers |-> @.writers \ {w}]]
                 ELSE cacheFiles
           /\ Returns(w, [c EXCEPT !.work = @ \cup {"write"}], <<"Ok", k>>)
    /\ UNCHANGED <<now, srcMtime, taskVars, pipeVars, batchVars, fnVars>>

\* The clock advances.
Tick(t) ==
    /\ t > now
    /\ now' = t
    /\ UNCHANGED <<srcMtime, cacheFiles, calls, lastRet,
                   taskVars, pipeVars, batchVars, fnVars>>

\* The user edits the first image: its modification time becomes now.
ModifySource ==
    /\ srcMtime["p1"] # now
    /\ srcMtime' = [srcMtime EXCEPT !["p1"] = now]
    /\ UNCHANGED <<now, cacheFiles, calls, lastRet,
                   taskVars, pipeVars, batchVars, fnVars>>

NextCache ==
    \/ \E w \in CacheWorkers, p \in CachePaths : Call(w, p)
    \/ \E w \in CacheWorkers : Lookup(w)
    \/ \E w \in CacheWorkers : AgeCheck(w)
    \/ \E w \in CacheWorkers : Remove(w)
    \/ \E w \in CacheWorkers : Generate(w)
    \/ \E w \in CacheWorkers : WriteOpen(w)
    \/ \E w \in CacheWorkers : WriteData(w)
    \/ \E t \in Instants : Tick(t)
    \/ ModifySource

(***************************************************************************)
(* color_profile.rs: detect_color_profile and the scanners under it        *)
(*                                                                         *)
(* A file is described by what the scanners read of it: its length, and    *)
(* for each round of a scanner's loop what stands at the offset the loop   *)
(* has reached (segs for a JPEG, chunks for a PNG: a loop never comes back *)
(* to an offset); bytes the description does not cover are zero.  The ICC  *)
(* profile of an APP2 segment is its tag count and tag table; its length   *)
(* is what is left of the segment.  Lengths are in bytes, usize is 64 bits *)
(* wide; 1000000000 stands for the values of a 32-bit field that lie far   *)
(* beyond any buffer.  A name is the sequence of its characters.  A result *)
(* is                                                                      *)
(* <<"None">>, <<"Some", name>> or, for a slice out of range, <<"panic">>. *)
(***************************************************************************)

\* The longest description of a file: rounds of the JPEG loop, of the PNG
\* loop.
MaxSegs == 2
MaxChunks == 2
MaxTags == 2
MaxSiblings == 2

NoneR == <<"None">>

SomeR(x) == <<"Some", x>>

panic == <<"panic">>

sRGB_name == <<"s", "R", "G", "B">>

AdobeRgb_name == <<"A", "d", "o", "b", "e", " ", "R", "G", "B">>

DisplayP3_name == <<"D", "i", "s", "p", "l", "a", "y", " ", "P", "3">>

ProPhoto_name == <<"P", "r", "o", "P", "h", "o", "t", "o", " ", "R", "G", "B">>

AdobeSrgb_name == <<"A", "D", "O", "B", "E", " ", "S", "R", "G", "B">>

ProPhotoAdobe_name == <<"P", "r", "o", "P", "h", "o", "t", "o", " ", "A", "d", "o", "b", "e", " ", "R", "G", "B">>

P3ProPhoto_name == <<"P", "3", " ", "d", "i", "s", "p", "l", "a", "y", " ", "p", "r", "o", "p", "h", "o", "t", "o">>

Gray_name == <<"G", "r", "a", "y">>

Adobe_name == <<"A", "d", "o", "b", "e">>

Display_name == <<"D", "i", "s", "p", "l", "a", "y">>

EmptyName == <<>>

Zero == "\\0"

Names == {sRGB_name, AdobeRgb_name, DisplayP3_name, ProPhoto_name,
          AdobeSrgb_name, ProPhotoAdobe_name, P3ProPhoto_name, Gray_name,
          Adobe_name, Display_name, EmptyName}

UpperCase == <<"A", "B", "C", "D", "E", "F", "G", "H", "I", "J", "K", "L", "M",
               "N", "O", "P", "Q", "R", "S", "T", "U", "V", "W", "X", "Y", "Z">>

LowerCase == <<"a", "b", "c", "d", "e", "f", "g", "h", "i", "j", "k", "l", "m",
               "n", "o", "p", "q", "r", "s", "t", "u", "v", "w", "x", "y", "z">>

\* str::to_lowercase (color_profile.rs:39)
to_lowercase(name) ==
    [i \in 1..Len(name) |->
        IF \E k \in 1..26 : UpperCase[k] = name[i]
        THEN LowerCase[CHOOSE k \in 1..26 : UpperCase[k] = name[i]]
        ELSE name[i]]

\* str::contains
contains(s, sub) ==
    \E i \in 0..(Len(s) - Len(sub)) : \A j \in 1..Len(sub) : s[i + j] = sub[j]

\* classify with the test for Adobe RGB ahead of the test for sRGB.
classify_adobe_first(profile_name) ==
    LET name == to_lowercase(profile_name) IN
    IF contains(name, <<"a", "d", "o", "b", "e">>)
       /\ contains(name, <<"r", "g", "b">>) THEN <<"AdobeRgb">>
    ELSE IF contains(name, <<"s", "r", "g", "b">>) THEN <<"Srgb">>
    ELSE IF contains(name, <<"d", "i", "s", "p", "l", "a", "y">>)
            /\ contains(name, <<"p", "3">>) THEN <<"DisplayP3">>
    ELSE IF contains(name, <<"p", "r", "o", "p", "h", "o", "t", "o">>)
        THEN <<"ProPhotoRgb">>
    ELSE <<"Unknown", profile_name>>

\* color_profile.rs:39-45
classify(profile_name) ==
    LET name == to_lowercase(profile_name) IN
    IF contains(name, <<"s", "r", "g", "b">>) THEN <<"Srgb">>
    ELSE IF contains(name, <<"a", "d", "o", "b", "e">>)
            /\ contains(name, <<"r", "g", "b">>) THEN <<"AdobeRgb">>
    ELSE IF contains(name, <<"d", "i", "s", "p", "l", "a", "y">>)
            /\ contains(name, <<"p", "3">>) THEN <<"DisplayP3">>
    ELSE IF contains(name, <<"p", "r", "o", "p", "h", "o", "t", "o">>)
        THEN <<"ProPhotoRgb">>
    ELSE <<"Unknown", profile_name>>

\* An entry of the tag table (color_profile.rs:166-181) with what the tag's
\* data holds: the text length at bytes 8..12 (color_profile.rs:188-193),
\* the text, and whether the text is UTF-8.
Tag(sig, off, size, tlen, utf8, name) ==
    [sig |-> sig, tag_offset |-> off, tag_size |-> size,
     text_length |-> tlen, utf8 |-> utf8, name |-> name]

OtherTag == Tag("other", 0, 0, 0, TRUE, EmptyName)

\* A desc tag that holds name, NUL-terminated, at the end of a profile of
\* 190 bytes.
GoodTag(name) == Tag("desc", 150, 40, Len(name) + 1, TRUE, name)

IccProfile(n, tags) == [tag_count |-> n, tags |-> tags]

\* Well-formed profiles, one per name, and malformed ones: no tag; a text
\* length of 0; a tag offset out of range; a tag of 12 bytes; a text longer
\* than the tag; a text that is no UTF-8 before a good tag; a tag count
\* beyond the table.
Profiles ==
    {IccProfile(1, <<GoodTag(n)>>) : n \in Names}
    \cup {IccProfile(0, <<>>),
          IccProfile(1, <<Tag("desc", 150, 40, 0, TRUE, EmptyName)>>),
          IccProfile(1, <<Tag("desc", 1000000000, 40, 5, TRUE, Gray_name)>>),
          IccProfile(1, <<Tag("desc", 150, 12, 5, TRUE, Gray_name)>>),
          IccProfile(1, <<Tag("desc", 150, 40, 29, TRUE, Gray_name)>>),
          IccProfile(2, <<Tag("desc", 150, 40, 5, FALSE, Gray_name),
                          GoodTag(sRGB_name)>>),
          IccProfile(1000000000, <<OtherTag, GoodTag(AdobeRgb_name)>>)}

TagAt(p, i) == IF i <= Len(p.tags) THEN p.tags[i] ELSE OtherTag

\* color_profile.rs:196-197: the text_length - 1 bytes of the record from
\* its byte 12 on; after the text the record holds zero bytes
desc_text(t) ==
    [k \in 1..(t.text_length - 1) |->
        IF k <= Len(t.name) THEN t.name[k] ELSE Zero]

RECURSIVE parse_tags_keeps_nul(_, _, _, _)
\* parse_tags returning the text_length bytes, the trailing null with them
parse_tags_keeps_nul(len, p, i, offset) ==
    IF i > p.tag_count THEN NoneR
    ELSE IF offset + 12 > len THEN NoneR
    ELSE LET t == TagAt(p, i)
             next == parse_tags_keeps_nul(len, p, i + 1, offset + 12)
         IN  IF t.sig = "desc"
                /\ t.tag_offset + t.tag_size <= len
                /\ t.tag_size > 12
                /\ 12 + t.text_length <= t.tag_size
             THEN IF t.utf8 THEN SomeR(Append(desc_text(t), Zero))
                  ELSE next
             ELSE next

\* color_profile.rs:161-207: round i of the loop over the tag table
RECURSIVE parse_tags(_, _, _, _)
parse_tags(len, p, i, offset) ==
    IF i > p.tag_count THEN NoneR
    ELSE IF offset + 12 > len THEN NoneR
    ELSE LET t == TagAt(p, i)
             next == parse_tags(len, p, i + 1, offset + 12)
         IN  IF t.sig = "desc"
                /\ t.tag_offset + t.tag_size <= len
                /\ t.tag_size > 12
                /\ 12 + t.text_length <= t.tag_size
             THEN IF 12 > 12 + t.text_length - 1 THEN panic
                  ELSE IF t.utf8 THEN SomeR(desc_text(t))
                  ELSE next
             ELSE next

\* color_profile.rs:145-210, on a profile of len bytes
parse_icc_description(len, p) ==
    IF len < 132 THEN NoneR ELSE parse_tags(len, p, 1, 132)

\* What stands at the offset of one round of the JPEG loop: whether the
\* byte is FF, the marker, the two length bytes, and whether the segment
\* data begin with ICC_PROFILE.
Seg(ff, marker, length, icc) ==
    [ff |-> ff, marker |-> marker, length |-> length, icc |-> icc]

NotFF == Seg(FALSE, "other", 0, FALSE)

SegLengths == {0, 2, 206, 65535}

SegChoices ==
    {NotFF, Seg(TRUE, "standalone", 0, FALSE)}
    \cup {Seg(TRUE, "other", l, FALSE) : l \in SegLengths}
    \cup {Seg(TRUE, "APP2", l, icc) : l \in SegLengths, icc \in BOOLEAN}

SegAt(d, i) == IF i <= Len(d.segs) THEN d.segs[i] ELSE NotFF

\* color_profile.rs:71-104: round i of the loop, at offset
RECURSIVE jpeg_scan(_, _, _)
jpeg_scan(d, i, offset) ==
    IF ~(offset + 4 < d.len) THEN NoneR
    ELSE LET s == SegAt(d, i) IN
    IF ~s.ff THEN NoneR
    ELSE LET found ==
                IF s.marker = "APP2" /\ offset + 2 + s.length <= d.len
                THEN IF offset + 4 > offset + 2 + s.length THEN panic
                     ELSE IF s.length - 2 > 14 /\ s.icc
                          THEN parse_icc_description(s.length - 2 - 14,
                                                     d.profile)
                          ELSE NoneR
                ELSE NoneR
         IN  IF found # NoneR THEN found
             ELSE IF s.marker = "standalone"
                  THEN jpeg_scan(d, i + 1, offset + 2)
                  ELSE jpeg_scan(d, i + 1, offset + 2 + s.length)

\* color_profile.rs:68-107
extract_jpeg_icc_profile(d) == jpeg_scan(d, 1, 2)

\* What stands at the offset of one round of the PNG loop: the chunk
\* length, the chunk type, and the bytes after them: name, then a zero byte
\* or none.
Chunk(type, length, name, null, utf8) ==
    [type |-> type, chunk_length |-> length, name |-> name,
     null |-> null, utf8 |-> utf8]

ChunkLengths == {0, 10, 40, 1000000000}

ChunkChoices ==
    {Chunk(t, l, EmptyName, FALSE, TRUE) :
        t \in {"IEND", "other"}, l \in ChunkLengths}
    \cup {Chunk("iCCP", l, n, null, utf8) :
            l \in ChunkLengths, n \in {sRGB_name, Gray_name},
            null \in BOOLEAN, utf8 \in BOOLEAN}

ChunkAt(d, i) ==
    IF i <= Len(d.chunks) THEN d.chunks[i]
    ELSE Chunk("other", 0, EmptyName, FALSE, TRUE)

\* color_profile.rs:112-140: round i of the loop, at offset
RECURSIVE png_scan(_, _, _)
png_scan(d, i, offset) ==
    IF ~(offset + 8 < d.len) THEN NoneR
    ELSE LET c == ChunkAt(d, i)
             found ==
                IF c.type = "iCCP"
                THEN IF offset + 8 + c.chunk_length > d.len THEN panic
                     ELSE IF c.null /\ Len(c.name) < c.chunk_length /\ c.utf8
                          THEN SomeR(c.name)
                          ELSE NoneR
                ELSE NoneR
         IN  IF found # NoneR THEN found
             ELSE IF c.type = "IEND" THEN NoneR
             ELSE png_scan(d, i + 1, offset + 12 + c.chunk_length)

\* color_profile.rs:109-143
extract_png_icc_profile(d) == png_scan(d, 1, 8)

\* A file: whether fs::read succeeds, what its first bytes spell, its
\* length, and what the scanners read of it.
File(readable, kind, len, segs, profile, chunks) ==
    [readable |-> readable, kind |-> kind, len |-> len, segs |-> segs,
     profile |-> profile, chunks |-> chunks]

JpegLens == {6, 7, 210, 420}

PngLens == {9, 17, 60}

JpegFiles ==
    {File(TRUE, "jpeg", l, segs, p, <<>>) :
        l \in JpegLens,
        segs \in UNION {[1..n -> SegChoices] : n \in 0..MaxSegs},
        p \in Profiles}

PngFiles ==
    {File(TRUE, "png", l, <<>>, IccProfile(0, <<>>), chunks) :
        l \in PngLens,
        chunks \in UNION {[1..n -> ChunkChoices] : n \in 0..MaxChunks}}

OtherFiles ==
    {File(r, k, l, <<>>, IccProfile(0, <<>>), <<>>) :
        r \in BOOLEAN, k \in {"jpeg", "png", "other"}, l \in {0, 2, 8, 50}}

\* color_profile.rs:54-66
extract_icc_profile_name(d) ==
    IF d.len > 2 /\ d.kind = "jpeg" THEN extract_jpeg_icc_profile(d)
    ELSE IF d.len > 8 /\ d.kind = "png" THEN extract_png_icc_profile(d)
    ELSE NoneR

\* color_profile.rs:34-51
detect_color_profile(d) ==
    IF ~d.readable THEN <<"Srgb">>
    ELSE LET profile_name == extract_icc_profile_name(d) IN
         IF profile_name = panic THEN panic
         ELSE IF profile_name # NoneR THEN classify(profile_name[2])
         ELSE <<"Srgb">>

\* The entries a tag table is drawn from: sound desc tags, the same with a
\* text that is no UTF-8, and the malformed ones of Profiles.
TagChoices ==
    {OtherTag}
    \cup {Tag("desc", 150, 40, Len(n) + 1, u, n) :
            n \in {EmptyName, sRGB_name, DisplayP3_name}, u \in BOOLEAN}
    \cup {Tag("desc", 150, 40, 0, TRUE, EmptyName),
          Tag("desc", 1000000000, 40, 5, TRUE, Gray_name),
          Tag("desc", 150, 12, 5, TRUE, Gray_name),
          Tag("desc", 150, 40, 29, TRUE, Gray_name)}

\* buffers too short for a table, for its first entry, for the record
IccLens == {131, 132, 144, 156, 190}

\* parse_icc_description is called on the bytes of a profile.
InitIccDescription ==
    /\ arg \in [len : IccLens,
                profile : {IccProfile(n, tags) :
                    n \in 0..(MaxTags + 1),
                    tags \in UNION {[1..m -> TagChoices] : m \in 0..MaxTags}}]
    /\ res = NoRes

\* color_profile.rs:145-210
ParseIccDescription ==
    /\ arg # NoArg /\ res = NoRes
    /\ res' = parse_icc_description(arg.len, arg.profile)
    /\ UNCHANGED <<arg, coreVars>>

\* extract_jpeg_icc_profile is called on a buffer that begins FF D8.
InitJpegIcc == arg \in JpegFiles /\ res = NoRes

ScanJpeg ==
    /\ arg # NoArg /\ res = NoRes
    /\ res' = extract_jpeg_icc_profile(arg)
    /\ UNCHANGED <<arg, coreVars>>

\* detect_color_profile is called on a file.
InitDetect == arg \in JpegFiles \cup PngFiles \cup OtherFiles /\ res = NoRes

Detect ==
    /\ arg # NoArg /\ res = NoRes
    /\ res' = detect_color_profile(arg)
    /\ UNCHANGED <<arg, coreVars>>

(***************************************************************************)
(* exif_writer.rs: ExifWriter::build_ifd0_entries, build_exif_segment,     *)
(* inject_exif_into_jpeg and write_jpeg_exif                               *)
(*                                                                         *)
(* An ExifData is the record of the optional fields the writer may read    *)
(* (exif_handler.rs:12-52), an ExifOptions the record of the five flags    *)
(* (exif_handler.rs:90-96).  An IFD entry is the record of its tag, type,  *)
(* count and the four value bytes.  Strings are sequences of characters.   *)
(* A JPEG is read as the walker reads it: the items met from offset 2 on,  *)
(* each one byte that is not FF, a marker without a length field, or a     *)
(* marker with its declared length; len is the number of bytes of the      *)
(* buffer, which may end before or after the last item.                    *)
(***************************************************************************)
MaxItems == 3
MaxWrites == 2

OkR(x) == <<"Ok", x>>
ErrR(m) == <<"Err", m>>
VecR(v) == <<"Vec", v>>

\* exif_writer.rs:137-172: the tag ids
TAG_SOFTWARE == 305
TAG_ARTIST == 315
TAG_COPYRIGHT == 33432
TAG_MAKE == 271
TAG_MODEL == 272
TAG_DATETIME == 306
TAG_ORIENTATION == 274
TAG_ISO == 34855
\* the tag ids of the fields the writer has no entry for
TAG_LENS_MODEL == 42036
TAG_GPS_INFO == 34853

\* exif_writer.rs:195, 228: the EXIF types
TYPE_ASCII == 2
TYPE_SHORT == 3

\* exif_writer.rs:138
IRON_SOFTWARE == <<"I", "r", "o", "n", " ", "O", "p", "t", "i", "m", "i", "z", "e", "r", " ", "v", "1", ".", "0">>

Take(s, n) == SubSeq(s, 1, IF Len(s) < n THEN Len(s) ELSE n)

RECURSIVE resize(_, _)
\* Vec::resize(n, 0)
resize(s, n) ==
    IF Len(s) >= n THEN Take(s, n) ELSE resize(Append(s, Zero), n)

\* create_ascii_entry without the padding of a short value
ascii_entry_unpadded(tag, value) ==
    [tag |-> tag, type |-> TYPE_ASCII, count |-> Len(value) + 1,
     value |-> Append(Take(value, 3), Zero)]

\* exif_writer.rs:188-218
create_ascii_entry(tag, value) ==
    LET count == Len(value) + 1
    IN  [tag |-> tag, type |-> TYPE_ASCII, count |-> count,
         value |-> IF count <= 4
                   THEN resize(Append(value, Zero), 4)
                   ELSE Append(Take(value, 3), Zero)]

\* exif_writer.rs:221-238
create_short_entry(tag, value) ==
    [tag |-> tag, type |-> TYPE_SHORT, count |-> 1,
     value |-> <<value % 256, value \div 256, 0, 0>>]

RECURSIVE insert_by_tag(_, _)
insert_by_tag(sorted, e) ==
    IF sorted = <<>> THEN <<e>>
    ELSE IF sorted[Len(sorted)].tag <= e.tag THEN Append(sorted, e)
    ELSE Append(insert_by_tag(SubSeq(sorted, 1, Len(sorted) - 1), e),
                sorted[Len(sorted)])

RECURSIVE sort_by_tag(_)
\* exif_writer.rs:182: a stable sort on the tag id
sort_by_tag(entries) ==
    IF entries = <<>> THEN <<>>
    ELSE insert_by_tag(sort_by_tag(SubSeq(entries, 1, Len(entries) - 1)),
                       entries[Len(entries)])

IsSome(o) == o[1] = "Some"

\* exif_writer.rs:143-173: `if let Some(ref x) = field { entries.push(..) }`
AsciiIf(tag, field) ==
    IF IsSome(field) THEN <<create_ascii_entry(tag, field[2])>> ELSE <<>>

ShortIf(tag, field) ==
    IF IsSome(field) THEN <<create_short_entry(tag, field[2] % 65536)>>
    ELSE <<>>

\* exif_writer.rs:131-180: the entries as pushed, before the sort
pushed_entries(data, options) ==
    (IF options.update_software
     THEN <<create_ascii_entry(TAG_SOFTWARE, IRON_SOFTWARE)>> ELSE <<>>)
    \o (IF options.preserve_copyright
        THEN AsciiIf(TAG_ARTIST, data.artist)
             \o AsciiIf(TAG_COPYRIGHT, data.copyright)
        ELSE <<>>)
    \o AsciiIf(TAG_MAKE, data.camera_make)
    \o AsciiIf(TAG_MODEL, data.camera_model)
    \o AsciiIf(TAG_DATETIME, data.date_taken)
    \o ShortIf(TAG_ORIENTATION, data.orientation)
    \o ShortIf(TAG_ISO, data.iso)

\* a writer that writes Artist and Copyright whatever the policy says
ifd0_ungated(data, options) ==
    sort_by_tag(pushed_entries(data,
                               [options EXCEPT !.preserve_copyright = TRUE]))

\* exif_writer.rs:131-185
build_ifd0_entries(data, options) ==
    sort_by_tag(pushed_entries(data, options))

Item(ff, marker, length, exif) ==
    [ff |-> ff, marker |-> marker, length |-> length, exif |-> exif,
     ifd |-> <<>>]

\* exif_writer.rs:92-128: the APP1 item; the entries are 12 bytes each
build_exif_segment(data, options) ==
    LET ifd0_entries == build_ifd0_entries(data, options)
    IN  [ff |-> TRUE, marker |-> "APP1",
         length |-> 2 + 6 + 8 + 2 + 12 * Len(ifd0_entries) + 4,
         exif |-> TRUE, ifd |-> ifd0_entries]

Byte == Item(FALSE, "none", 0, FALSE)
Standalone == Item(TRUE, "standalone", 0, FALSE)

ItemLengths == {0, 8, 20, 65535}

ItemChoices ==
    {Byte, Standalone}
    \cup {Item(TRUE, m, l, FALSE) : m \in {"other", "APP1"}, l \in ItemLengths}
    \cup {Item(TRUE, "APP1", l, TRUE) : l \in ItemLengths}

\* the bytes an item takes
Size(s) ==
    IF ~s.ff THEN 1 ELSE IF s.marker = "standalone" THEN 2 ELSE 2 + s.length

RECURSIVE Total(_)
Total(items) ==
    IF items = <<>> THEN 2
    ELSE Total(SubSeq(items, 1, Len(items) - 1)) + Size(items[Len(items)])

\* The byte after a length field below 2, and the byte inside an identifier
\* that a length below 8 points into, is not FF.
Laid(items) ==
    \A k \in 1..Len(items) :
        LET s == items[k]
        IN  s.ff /\ s.marker # "standalone"
            /\ (s.length < 2 \/ (s.exif /\ s.length < 8))
            => k < Len(items) /\ items[k + 1] = Byte

Jpeg(soi, len, items) == [soi |-> soi, len |-> len, items |-> items]

ItemLists(n) ==
    {items \in UNION {[1..m -> ItemChoices] : m \in 0..n} : Laid(items)}

Jpegs(n) ==
    {Jpeg(TRUE, Total(items) + e, items) :
        items \in ItemLists(n), e \in {-1, 0, 1}}

ItemAt(d, k) == IF k <= Len(d.items) THEN d.items[k] ELSE Byte

RECURSIVE inject_walk(_, _, _, _)
\* exif_writer.rs:252-291: the round of the loop at offset i, on item k
inject_walk(d, k, i, result) ==
    IF ~(i < d.len) THEN OkR(result)
    ELSE LET s == ItemAt(d, k) IN
    IF ~s.ff THEN ErrR("Invalid JPEG structure")
    ELSE IF ~(i + 1 < d.len) THEN panic
    ELSE IF s.marker = "standalone"
         THEN inject_walk(d, k + 1, i + 2, Append(result, s))
    ELSE IF i + 3 >= d.len THEN ErrR("Truncated JPEG")
    ELSE IF s.marker = "APP1" /\ i + 10 < d.len /\ s.exif
         THEN inject_walk(d, k + 1, i + 2 + s.length, result)
    ELSE IF i + 2 + s.length > d.len THEN ErrR("Invalid segment length")
    ELSE inject_walk(d, k + 1, i + 2 + s.length, Append(result, s))

\* exif_writer.rs:241-294
inject_exif_into_jpeg(jpeg_data, exif_segment) ==
    IF jpeg_data.len < 2 THEN panic
    ELSE inject_walk(jpeg_data, 1, 2, <<exif_segment>>)

\* exif_writer.rs:65-89: the new contents of the file, or the error
write_jpeg_exif(jpeg_data, source_data, options) ==
    IF jpeg_data.len < 4 \/ ~jpeg_data.soi THEN ErrR("Invalid JPEG file")
    ELSE inject_exif_into_jpeg(jpeg_data,
                               build_exif_segment(source_data, options))

\* exif_writer.rs:85: the file as fs::write leaves it
Written(r) == Jpeg(TRUE, Total(r[2]), r[2])

Fields == {"camera_make", "camera_model", "lens_model", "iso",
           "date_taken", "orientation", "gps_latitude", "gps_longitude",
           "artist", "copyright", "software"}

SampleValue(f) ==
    CASE f = "camera_make" -> <<"C", "a", "n", "o", "n">>
      [] f = "camera_model" -> <<"R", "5">>
      [] f = "lens_model" -> <<"R", "F", "5", "0">>
      [] f = "iso" -> 70000
      [] f = "date_taken" -> <<"2", "0", "2", "4">>
      [] f = "orientation" -> 6
      [] f = "gps_latitude" -> 45
      [] f = "gps_longitude" -> 9
      [] f = "artist" -> <<"A", "n", "n">>
      [] f = "copyright" -> <<>>
      [] f = "software" -> <<"G", "I", "M", "P">>

\* exif_handler.rs:12-52: the fields in present
ExifData(present) ==
    [f \in Fields |-> IF f \in present THEN SomeR(SampleValue(f)) ELSE NoneR]

\* latitude and longitude are read together (exif_handler.rs)
ExifDatas ==
    {ExifData(present) : present \in
        {s \in SUBSET Fields : "gps_latitude" \in s <=> "gps_longitude" \in s}}

\* exif_handler.rs:90-96
ExifOptions ==
    [preserve_all : BOOLEAN, strip_gps : BOOLEAN, strip_thumbnail : BOOLEAN,
     update_software : BOOLEAN, preserve_copyright : BOOLEAN]

\* exif_handler.rs:98-108
DefaultOptions ==
    [preserve_all |-> TRUE, strip_gps |-> FALSE, strip_thumbnail |-> TRUE,
     update_software |-> TRUE, preserve_copyright |-> TRUE]

\* The marker segments a file is made of ahead of its scan: any marker
\* with a length field, the old Exif segments among them.
SegmentChoices ==
    {Item(TRUE, m, l, FALSE) : m \in {"other", "APP1"}, l \in {8, 20}}
    \cup {Item(TRUE, "APP1", l, TRUE) : l \in {8, 20}}

\* the SOS segment: a marker with a length field like the others
Sos == Item(TRUE, "other", 8, FALSE)

\* SOI, marker segments, SOS, entropy-coded bytes, EOI
WellFormedJpegs ==
    {Jpeg(TRUE, Total(items), items) :
        items \in {segments \o <<Sos>> \o scan \o <<Standalone>> :
            segments \in UNION {[1..m -> SegmentChoices] : m \in 0..(MaxItems - 1)},
            scan \in UNION {[1..m -> {Byte}] : m \in 1..(MaxItems - 1)}}}

InitInject ==
    /\ arg \in [jpeg_data : Jpegs(MaxItems) \cup WellFormedJpegs,
                exif_segment : {build_exif_segment(ExifData({}), DefaultOptions),
                                build_exif_segment(ExifData(Fields), DefaultOptions)}]
    /\ res = NoRes

\* exif_writer.rs:241-294: one call of inject_exif_into_jpeg
InjectExifIntoJpeg ==
    /\ arg # NoArg
    /\ res = NoRes
    /\ res' = inject_exif_into_jpeg(arg.jpeg_data, arg.exif_segment)
    /\ UNCHANGED <<arg, coreVars>>

InitIfd0 ==
    /\ arg \in [data : ExifDatas, options : ExifOptions]
    /\ res = NoRes

\* exif_writer.rs:110: the call of build_ifd0_entries
BuildIfd0 ==
    /\ arg # NoArg
    /\ res = NoRes
    /\ res' = VecR(build_ifd0_entries(arg.data, arg.options))
    /\ UNCHANGED <<arg, coreVars>>

InitExif ==
    /\ arg \in [dest : Jpegs(MaxItems) \cup {Jpeg(FALSE, 12, <<>>)},
                data : {ExifData({}), ExifData(Fields)},
                options : {DefaultOptions}, n : {0}]
    /\ res = NoRes

\* exif_writer.rs:40: one call of write_jpeg_exif on the destination file
WriteJpegExif ==
    /\ arg # NoArg
    /\ arg.n < MaxWrites
    /\ res' = write_jpeg_exif(arg.dest, arg.data, arg.options)
    /\ arg' = [arg EXCEPT !.n = @ + 1,
                          !.dest = IF res'[1] = "Ok" THEN Written(res')
                                   ELSE @]
    /\ UNCHANGED coreVars

(***************************************************************************)
(* color_management.rs: ColorManager::convert_to_srgb, and the colour      *)
(* stage of process_single_image (image_processing.rs:468-511)             *)
(*                                                                         *)
(* An image is its DynamicImage variant and its pixel data.  What the      *)
(* LCMS2 library answers is part of the input: whether Profile::new_rgb    *)
(* and Transform::new succeed, and whether a transform between two equal   *)
(* profiles hands the bytes back as they were.                             *)
(***************************************************************************)
ImageFormats == {"ImageRgb8", "ImageRgba8", "ImageLuma8", "ImageLumaA8",
                 "ImageRgb16", "ImageRgba16"}

Image(format, pixels) == [format |-> format, pixels |-> pixels]

Images == {Image(f, <<"decoded">>) : f \in ImageFormats}

\* color_profile.rs:9-15
ColorProfiles ==
    {<<"Srgb">>, <<"AdobeRgb">>, <<"DisplayP3">>, <<"ProPhotoRgb">>,
     <<"Unknown", Gray_name>>, <<"Unknown", Adobe_name>>}

\* color_management.rs:9-18
RenderingIntents ==
    {"Perceptual", "RelativeColorimetric", "Saturation",
     "AbsoluteColorimetric"}

Lcms == [new_rgb : BOOLEAN, transform : BOOLEAN, identity : BOOLEAN]

\* color_management.rs:149-254: Profile::new_rgb with the primaries of p
create_rgb_profile(p, lcms) ==
    IF lcms.new_rgb THEN OkR(p) ELSE ErrR("Failed to create profile")

\* color_management.rs:125-146
get_source_profile(source, lcms) ==
    CASE source[1] = "Srgb"        -> OkR("sRGB")
      [] source[1] = "AdobeRgb"    -> create_rgb_profile("AdobeRGB", lcms)
      [] source[1] = "DisplayP3"   -> create_rgb_profile("DisplayP3", lcms)
      [] source[1] = "ProPhotoRgb" -> create_rgb_profile("ProPhotoRGB", lcms)
      [] source[1] = "Unknown"     -> OkR("sRGB")

\* color_management.rs:289, 328: Transform::transform_pixels on every row
transform_pixels(source_profile, dest_profile, intent, pixels, lcms) ==
    IF source_profile = dest_profile /\ lcms.identity THEN pixels
    ELSE <<"transformed", source_profile, dest_profile, intent, pixels>>

\* color_management.rs:257-293 and 296-334 (convert_rgba_image)
convert_rgb_image(pixels, source_profile, dest_profile, intent, lcms) ==
    IF ~lcms.transform THEN ErrR("Failed to create transform")
    ELSE OkR(transform_pixels(source_profile, dest_profile, intent,
                              pixels, lcms))

\* DynamicImage::to_rgb8
to_rgb8(img) == Image("ImageRgb8", <<"to_rgb8", img>>)

\* color_management.rs:61-91
convert_as(format, pixels, source_lcms_profile, intent, lcms) ==
    LET converted == convert_rgb_image(pixels, source_lcms_profile, "sRGB",
                                       intent, lcms)
    IN  IF converted[1] = "Ok" THEN OkR(Image(format, converted[2]))
        ELSE converted

\* color_management.rs:46-92
convert_to_srgb(img, source_profile, intent, lcms) ==
    IF source_profile = <<"Srgb">> THEN OkR(img)
    ELSE LET source_lcms_profile == get_source_profile(source_profile, lcms)
         IN  IF source_lcms_profile[1] = "Err" THEN source_lcms_profile
             ELSE IF img.format \in {"ImageRgb8", "ImageRgba8"}
                  THEN convert_as(img.format, img.pixels,
                                  source_lcms_profile[2], intent, lcms)
                  ELSE convert_as("ImageRgb8", to_rgb8(img).pixels,
                                  source_lcms_profile[2], intent, lcms)

\* whether the call reaches Transform::new (color_management.rs:268, 307)
BuildsTransform(source_profile, lcms) ==
    /\ source_profile # <<"Srgb">>
    /\ get_source_profile(source_profile, lcms)[1] = "Ok"

\* image_processing.rs:468-511: the image the stage hands to the resize,
\* with whether a transform was built on the way
color_stage(img, color_profile, intent, lcms) ==
    IF ~is_web_safe(color_profile[1])
    THEN LET converted == convert_to_srgb(img, color_profile, intent, lcms)
         IN  [img |-> IF converted[1] = "Ok" THEN converted[2] ELSE img,
              converting |-> TRUE,
              transform |-> BuildsTransform(color_profile, lcms)]
    ELSE [img |-> img, converting |-> FALSE, transform |-> FALSE]

InitColor ==
    /\ arg \in [img : Images, color_profile : ColorProfiles,
                intent : RenderingIntents, lcms : Lcms]
    /\ res = NoRes

\* image_processing.rs:469-511: the stage has no early return, the task
\* goes on with the image
ColorStage ==
    /\ arg # NoArg
    /\ res = NoRes
    /\ res' = OkR(color_stage(arg.img, arg.color_profile, arg.intent,
                           arg.lcms))
    /\ UNCHANGED <<arg, coreVars>>

(***************************************************************************)
(* settings.rs: ResizePreset::dimensions and ResizePreset::calculate_resize*)
(*                                                                         *)
(* The ratios are f32 values.  An f32 is kept here as the pair <<m, k>>    *)
(* that stands for m / 2^k, with m = 0 or 2^23 <= m < 2^24 (the 24         *)
(* significant bits of the format); division and multiplication round to   *)
(* the nearest such value, ties to the even m, as the hardware does.  The  *)
(* dimensions are kept at most MaxDim so that every product stays below   *)
(* 2^31; a u32 of that size converts to f32 without loss.                  *)
(***************************************************************************)
MaxDim == 48

RECURSIVE Pow2(_)
Pow2(n) == IF n = 0 THEN 1 ELSE 2 * Pow2(n - 1)

\* f32: 24 significant bits
F32_BITS == 24

ZeroF == <<0, 0>>

\* m / 2^k with m brought back below 2^24 after a round-up
Normal(m, k) == IF m = Pow2(F32_BITS) THEN <<m \div 2, k - 1>> ELSE <<m, k>>

\* round-to-nearest, ties-to-even of q + r/d
RoundEven(q, r, d) ==
    IF 2 * r > d \/ (2 * r = d /\ q % 2 = 1) THEN q + 1 ELSE q

RECURSIVE ShiftFor(_, _, _)
\* the least k from k0 on with t * 2^k / w >= 2^23
ShiftFor(t, w, k0) ==
    IF t * Pow2(k0) >= Pow2(F32_BITS - 1) * w THEN k0
    ELSE ShiftFor(t, w, k0 + 1)

\* settings.rs:72-73: `t as f32 / w as f32`
div_f32(t, w) ==
    IF t = 0 THEN ZeroF
    ELSE LET k == ShiftFor(t, w, 0)
             n == t * Pow2(k)
         IN  Normal(RoundEven(n \div w, n % w, w), k)

lt_f32(a, b) ==
    IF a[1] = 0 THEN b[1] > 0
    ELSE IF b[1] = 0 THEN FALSE
    ELSE a[2] > b[2] \/ (a[2] = b[2] /\ a[1] < b[1])

\* settings.rs:76: f32::min
min_f32(a, b) == IF lt_f32(b, a) THEN b ELSE a

RECURSIVE DropFor(_, _)
\* the least s from s0 on with p / 2^s < 2^24
DropFor(p, s0) ==
    IF p \div Pow2(s0) < Pow2(F32_BITS) THEN s0 ELSE DropFor(p, s0 + 1)

\* settings.rs:78-79: `w as f32 * ratio`
mul_f32(w, ratio) ==
    IF ratio[1] = 0 THEN ZeroF
    ELSE LET p == w * ratio[1]
             s == DropFor(p, 0)
             m == RoundEven(p \div Pow2(s), p % Pow2(s), Pow2(s))
         IN  IF s <= ratio[2] THEN Normal(m, ratio[2] - s)
             ELSE <<m * Pow2(s - ratio[2]), 0>>

\* settings.rs:78-79: `as u32` of a value that is not negative
as_u32(x) == x[1] \div Pow2(x[2])

CustomDims == {0, 1, 7, 8, MaxDim}

\* settings.rs:27-42
ResizePresets ==
    {<<"None">>, <<"UHD4K">>, <<"QHD2K">>, <<"FullHD">>, <<"HD">>, <<"SD">>}
    \cup {<<"Custom", tw, th>> : tw \in CustomDims, th \in CustomDims}

\* settings.rs:46-56
dimensions(preset) ==
    CASE preset[1] = "None"   -> NoneR
      [] preset[1] = "UHD4K"  -> SomeR(<<3840, 2160>>)
      [] preset[1] = "QHD2K"  -> SomeR(<<2560, 1440>>)
      [] preset[1] = "FullHD" -> SomeR(<<1920, 1080>>)
      [] preset[1] = "HD"     -> SomeR(<<1280, 720>>)
      [] preset[1] = "SD"     -> SomeR(<<854, 480>>)
      [] preset[1] = "Custom" -> SomeR(<<preset[2], preset[3]>>)

\* settings.rs:59-82
calculate_resize(preset, original_width, original_height) ==
    LET dims == dimensions(preset) IN
    IF dims = NoneR THEN NoneR
    ELSE LET target_dims == dims[2] IN
    IF original_width <= target_dims[1] /\ original_height <= target_dims[2]
    THEN NoneR
    ELSE LET width_ratio == div_f32(target_dims[1], original_width)
             height_ratio == div_f32(target_dims[2], original_height)
             ratio == min_f32(width_ratio, height_ratio)
         IN  SomeR(<<as_u32(mul_f32(original_width, ratio)),
                     as_u32(mul_f32(original_height, ratio))>>)

InitResize ==
    /\ arg \in [preset : ResizePresets, width : 1..MaxDim,
                height : 1..MaxDim]
    /\ res = NoRes

\* settings.rs:112: the call of calculate_resize in apply_resize
CalculateResize ==
    /\ arg # NoArg
    /\ res = NoRes
    /\ res' = calculate_resize(arg.preset, arg.width, arg.height)
    /\ UNCHANGED <<arg, coreVars>>

(***************************************************************************)
(* The three checks of a file's size: ImageTask::new (task.rs:69-84),      *)
(* InputValidator::validate_file_size (error.rs:183-196) and the metadata  *)
(* discovery (image_processing.rs:76-85, 199-213)                          *)
(***************************************************************************)
\* error.rs:184-185
MIN_SIZE == 100
MAX_SIZE == 1000000000

\* image_processing.rs:24 (the constant is named MAX_FILE_SIZE there too)
METADATA_MAX_FILE_SIZE == 1000000000

\* error.rs:183-196
validate_file_size(size) ==
    IF size < MIN_SIZE THEN ErrR("FileTooSmall")
    ELSE IF size > MAX_SIZE THEN ErrR("FileTooBig")
    ELSE OkR(<<>>)

\* the extensions image_decoder.rs:142 lists
SupportedExtensions == {"jpg", "jpeg", "png", "tif", "tiff"}

\* image_decoder.rs:136-145
is_supported_format(is_file, extension) ==
    IF ~is_file THEN FALSE ELSE extension \in SupportedExtensions

\* an extension that ImageFormat::from_path reads as the format
ExtensionOf(f) ==
    CASE f.ext = "Jpeg" -> "jpg"
      [] f.ext = "Png" -> "png"
      [] f.ext = "Gif" -> "gif"
      [] OTHER -> "dat"

\* image_processing.rs:76-85: whether a path that is no directory is pushed
\* on discovered_files
pushes_file(f) ==
    /\ is_supported_format(f.is_file, ExtensionOf(f))
    /\ ~(f.metadata /\ f.size > METADATA_MAX_FILE_SIZE)

\* image_processing.rs:199-272; the steps after the type is read do not
\* look at the size
extract_image_info(f) ==
    IF ~f.metadata THEN ErrR("metadata")
    ELSE IF f.size = 0 THEN ErrR("Empty file")
    ELSE IF f.size > METADATA_MAX_FILE_SIZE THEN ErrR("File too large")
    ELSE IF ~f.readable THEN ErrR("Could not read file")
    ELSE OkR([size_kb_bytes |-> f.size])

\* image_processing.rs:45-56, 76-85, 99-101: the path of f given to
\* get_image_metadata gets an ImageInfo
discovers(f) ==
    /\ f.shape.bytes <= 4096
    /\ f.exists
    /\ pushes_file(f)
    /\ extract_image_info(f)[1] = "Ok"

InitSize ==
    /\ arg \in {f \in FileAnswers : Consistent(f)}
    /\ res = NoRes

\* the three checks on the same file
CheckSize ==
    /\ arg # NoArg
    /\ res = NoRes
    /\ res' = OkR([task |-> is_valid(ImageTask_new(arg)),
                   validator |-> validate_file_size(arg.size)[1] = "Ok",
                   discovery |-> discovers(arg)])
    /\ UNCHANGED <<arg, coreVars>>

(***************************************************************************)
(* image_processing.rs: the directory expansion of get_image_metadata and  *)
(* get_image_metadata_progressive                                          *)
(*                                                                         *)
(* A path is the sequence of its components; PathBuf orders paths          *)
(* component by component, and Rank gives the order of the names used      *)
(* here.  The file system is the tree Tree.  The directory r/zz stands for *)
(* a large directory: it holds `bulk` further supported files, which sort  *)
(* after every other path of the tree; they are kept as a number, in the   *)
(* field bulk of a list.                                                   *)
(***************************************************************************)
MaxRoots == 2

\* image_processing.rs:61, 135: WalkDir::max_depth
MAX_DEPTH == 10

\* image_processing.rs:92, 161
MAX_DISCOVERED == 10000

Rank(name) ==
    CASE name = "a.jpg" -> 1 [] name = "b.png" -> 2 [] name = "big.png" -> 3
      [] name = "c.txt" -> 4 [] name = "d.JPG" -> 5 [] name = "e.tiff" -> 6
      [] name = "gone" -> 7  [] name = "n" -> 8     [] name = "r" -> 9
      [] name = "sub" -> 10  [] name = "x.jpg" -> 11

\* Path::extension of the last component
Extension(name) ==
    CASE name \in {"a.jpg", "x.jpg"} -> "jpg"
      [] name \in {"b.png", "big.png"} -> "png"
      [] name = "c.txt" -> "txt"
      [] name = "d.JPG" -> "JPG"
      [] name = "e.tiff" -> "tiff"
      [] OTHER -> "none"

RECURSIVE PathLt(_, _)
\* PathBuf's Ord
PathLt(a, b) ==
    IF a = <<>> THEN b # <<>>
    ELSE IF b = <<>> THEN FALSE
    ELSE IF a[1] # b[1] THEN Rank(a[1]) < Rank(b[1])
    ELSE PathLt(Tail(a), Tail(b))

\* r/n/n/.../n, k levels below r
Chain(k) == <<"r">> \o [i \in 1..k |-> "n"]

Node(path, kind, size) == [path |-> path, kind |-> kind, size |-> size]

Tree ==
    {Node(<<"r">>, "dir", 0), Node(<<"r", "sub">>, "dir", 0),
     Node(<<"r", "x.jpg">>, "dir", 0),
     Node(<<"r", "a.jpg">>, "file", 5000),
     Node(<<"r", "c.txt">>, "file", 5000),
     Node(<<"r", "d.JPG">>, "file", 5000),
     Node(<<"r", "big.png">>, "file", METADATA_MAX_FILE_SIZE + 1),
     Node(<<"r", "sub", "b.png">>, "file", 50),
     Node(Append(Chain(MAX_DEPTH - 1), "e.tiff"), "file", 5000),
     Node(Append(Chain(MAX_DEPTH), "a.jpg"), "file", 5000)}
    \cup {Node(Chain(k), "dir", 0) : k \in 1..MAX_DEPTH}

Exists(path) == \E n \in Tree : n.path = path

NodeAt(path) == CHOOSE n \in Tree : n.path = path

IsPrefix(a, b) == Len(a) <= Len(b) /\ SubSeq(b, 1, Len(a)) = a

\* a list of discovered files
Listed(files, bulk) == [files |-> files, bulk |-> bulk]

RECURSIVE Ascending(_)
Ascending(S) ==
    IF S = {} THEN <<>>
    ELSE LET least == CHOOSE a \in S : \A b \in S \ {a} : PathLt(a, b)
         IN  <<least>> \o Ascending(S \ {least})

Reverse(s) == [i \in 1..Len(s) |-> s[Len(s) + 1 - i]]

\* image_processing.rs:60-63: the entries WalkDir yields below root, down
\* to MAX_DEPTH levels, in the order the directories give them
walk(root, order) ==
    LET found == {n.path : n \in {m \in Tree :
                     /\ IsPrefix(root, m.path)
                     /\ Len(m.path) - Len(root) <= MAX_DEPTH}}
    IN  IF order = "ascending" THEN Ascending(found)
        ELSE Reverse(Ascending(found))

\* image_processing.rs:64, 68-74 and 76-84: the filter and the size check
pushes(path) ==
    /\ is_supported_format(NodeAt(path).kind = "file",
                           Extension(path[Len(path)]))
    /\ ~(NodeAt(path).size > METADATA_MAX_FILE_SIZE)

RECURSIVE Pushed(_)
Pushed(entries) ==
    IF entries = <<>> THEN <<>>
    ELSE (IF pushes(Head(entries)) THEN <<Head(entries)>> ELSE <<>>)
         \o Pushed(Tail(entries))

\* image_processing.rs:45-86: what one path of the list adds
expand(path, order, bulk) ==
    IF path = <<>> THEN Listed(<<>>, 0)
    ELSE IF ~Exists(path) THEN Listed(<<>>, 0)
    ELSE IF NodeAt(path).kind = "dir"
         THEN Listed(Pushed(walk(path, order)),
                     IF path = <<"r">> THEN bulk ELSE 0)
    ELSE Listed(IF pushes(path) THEN <<path>> ELSE <<>>, 0)

RECURSIVE collect(_, _, _)
\* image_processing.rs:43-86
collect(given, order, bulk) ==
    IF given = <<>> THEN Listed(<<>>, 0)
    ELSE LET first == expand(Head(given), order, bulk)
             rest == collect(Tail(given), order, bulk)
         IN  Listed(first.files \o rest.files, first.bulk + rest.bulk)

RECURSIVE insert_path(_, _)
insert_path(sorted, p) ==
    IF sorted = <<>> THEN <<p>>
    ELSE IF ~PathLt(p, sorted[Len(sorted)]) THEN Append(sorted, p)
    ELSE Append(insert_path(SubSeq(sorted, 1, Len(sorted) - 1), p),
                sorted[Len(sorted)])

RECURSIVE sorted_paths(_)
sorted_paths(list) ==
    IF list = <<>> THEN <<>>
    ELSE insert_path(sorted_paths(SubSeq(list, 1, Len(list) - 1)),
                     list[Len(list)])

\* a list left in the order of discovery
unsorted(l) == l

\* image_processing.rs:88: Vec::sort; the bulk sorts last
sort(l) == Listed(sorted_paths(l.files), l.bulk)

RECURSIVE dedup_paths(_)
dedup_paths(list) ==
    IF Len(list) < 2 THEN list
    ELSE LET front == dedup_paths(SubSeq(list, 1, Len(list) - 1))
         IN  IF front[Len(front)] = list[Len(list)] THEN front
             ELSE Append(front, list[Len(list)])

\* image_processing.rs:89: Vec::dedup drops consecutive repeats; the bulk
\* of a sorted list is `bulk` distinct paths, each once per walk of r
dedup(l, bulk) ==
    Listed(dedup_paths(l.files), IF l.bulk > bulk THEN bulk ELSE l.bulk)

\* image_processing.rs:92-95: Vec::truncate
truncate(l) ==
    IF Len(l.files) + l.bulk > MAX_DISCOVERED
    THEN IF Len(l.files) >= MAX_DISCOVERED
         THEN Listed(SubSeq(l.files, 1, MAX_DISCOVERED), 0)
         ELSE Listed(l.files, MAX_DISCOVERED - Len(l.files))
    ELSE l

\* image_processing.rs:43-95 and 121-163
discovered_files(given, order, bulk) ==
    truncate(dedup(sort(collect(given, order, bulk)), bulk))

Roots == {<<"r">>, <<"r", "sub">>, <<"r", "n">>, <<"r", "a.jpg">>,
          <<"r", "c.txt">>, <<"gone">>, <<>>}

Bulks == {0, MAX_DISCOVERED - 3, MAX_DISCOVERED}

InitExpand ==
    /\ arg \in [paths : UNION {[1..n -> Roots] : n \in 0..MaxRoots},
                order : {"ascending", "descending"}, bulk : Bulks,
                command : {"get_image_metadata",
                           "get_image_metadata_progressive"}]
    /\ res = NoRes

\* image_processing.rs:33-95
GetImageMetadata ==
    /\ arg # NoArg
    /\ arg.command = "get_image_metadata"
    /\ res = NoRes
    /\ res' = OkR(discovered_files(arg.paths, arg.order, arg.bulk))
    /\ UNCHANGED <<arg, coreVars>>

\* image_processing.rs:107-163
GetImageMetadataProgressive ==
    /\ arg # NoArg
    /\ arg.command = "get_image_metadata_progressive"
    /\ res = NoRes
    /\ res' = OkR(discovered_files(arg.paths, arg.order, arg.bulk))
    /\ UNCHANGED <<arg, coreVars>>

NextExpand == GetImageMetadata \/ GetImageMetadataProgressive

(***************************************************************************)
(* image_processing.rs: get_image_metadata_progressive, step by step.      *)
(* The command keeps its state in the variables of a batch: paths is the   *)
(* list it was given, tasks the discovered files, total_valid_tasks the    *)
(* total, current_progress the counter behind the mutex, events what the   *)
(* application handle has emitted.                                         *)
(***************************************************************************)

\* what extract_image_info does with one file: a record, an Err, or the
\* panic of detect_color_profile on a malformed ICC description
ExtractResults == {"Ok", "Err", "panic"}

\* image_processing.rs:112-118
SkipsBatch(list, pad) == ListLen(list, pad) = 0

TooManyFiles(list, pad) == ListLen(list, pad) > 10000

\* image_processing.rs:107-163: the checks of the list, then the blocking
\* task discovers, sorts, dedups and truncates; total is the length.  The
\* padding of the list is made of empty strings, which line 124 skips.
MetadataProgressive ==
    /\ bpc = "idle"
    /\ \E given \in UNION {[1..n -> Roots] : n \in 0..MaxRoots},
          pad \in PadChoices, order \in {"ascending", "descending"} :
        /\ ListLen(given, pad) <= MAX_PATHS + 1
        /\ paths' = given
        /\ padLen' = pad
        /\ IF SkipsBatch(given, pad) \/ TooManyFiles(given, pad)
           THEN /\ bpc' = "returned"
                /\ ret' = IF SkipsBatch(given, pad) THEN "Ok" ELSE "Err"
                /\ UNCHANGED <<tasks, total_valid_tasks, tstate>>
           ELSE LET found == discovered_files(given, order, 0).files
                IN  /\ bpc' = "running"
                    /\ ret' = ret
                    /\ tasks' = found
                    /\ total_valid_tasks' = Len(found)
                    /\ tstate' = [i \in 1..Len(found) |-> Pending]
    /\ current_progress' = 0
    /\ UNCHANGED <<events, stderr, taskVars, pipeVars, cacheVars, fnVars>>

Extracting == {i \in 1..Len(tstate) : tstate[i].pc \in {"processed", "counted"}}

\* image_processing.rs:170-171: a free thread of the pool takes a file and
\* runs extract_image_info; an Err ends the closure, a panic unwinds it
ExtractImageInfo(i) ==
    /\ bpc = "running"
    /\ i \in 1..Len(tstate)
    /\ tstate[i].pc = "pending"
    /\ Cardinality(Extracting) < Workers
    /\ \E r \in ExtractResults :
        tstate' = [tstate EXCEPT ![i] =
                      [@ EXCEPT !.pc = IF r = "Ok" THEN "processed" ELSE "done",
                                !.result = r]]
    /\ UNCHANGED <<bpc, paths, padLen, ret, tasks, total_valid_tasks,
                   current_progress, events, stderr,
                   taskVars, pipeVars, cacheVars, fnVars>>

\* image_processing.rs:172-175: lock, increment, read, drop
ProgressIncrement(i) ==
    /\ bpc = "running"
    /\ i \in 1..Len(tstate)
    /\ tstate[i].pc = "processed"
    /\ current_progress' = current_progress + 1
    /\ tstate' = [tstate EXCEPT ![i] = [@ EXCEPT !.pc = "counted",
                                      !.current = current_progress + 1]]
    /\ UNCHANGED <<bpc, paths, padLen, ret, tasks, total_valid_tasks,
                   events, stderr, taskVars, pipeVars, cacheVars, fnVars>>

MetadataProgressPayload(i) ==
    [event |-> "metadata-progress", path |-> tasks[i],
     current |-> tstate[i].current, total |-> total_valid_tasks]

\* image_processing.rs:177-184
EmitMetadataProgress(i) ==
    /\ bpc = "running"
    /\ i \in 1..Len(tstate)
    /\ tstate[i].pc = "counted"
    /\ tstate' = [tstate EXCEPT ![i] = [@ EXCEPT !.pc = "done"]]
    /\ events' = Append(events, MetadataProgressPayload(i))
    /\ UNCHANGED <<bpc, paths, padLen, ret, tasks, total_valid_tasks,
                   current_progress, stderr,
                   taskVars, pipeVars, cacheVars, fnVars>>

AllExtracted == \A i \in 1..Len(tstate) : tstate[i].pc = "done"

Panicked == \E i \in 1..Len(tstate) : tstate[i].result = "panic"

\* image_processing.rs:188: for_each has returned, the terminal event
EmitMetadataComplete ==
    /\ bpc = "running"
    /\ AllExtracted
    /\ ~Panicked
    /\ events' = Append(events, [event |-> "metadata-complete"])
    /\ bpc' = "joining"
    /\ UNCHANGED <<paths, padLen, ret, tasks, total_valid_tasks,
                   current_progress, tstate, stderr,
                   taskVars, pipeVars, cacheVars, fnVars>>

\* image_processing.rs:170-186: nothing catches a panic of the closure;
\* for_each resumes it once every job has ended, line 188 is not reached
\* and the blocking task ends panicked
ResumeUnwind ==
    /\ bpc = "running"
    /\ AllExtracted
    /\ Panicked
    /\ bpc' = "unwound"
    /\ UNCHANGED <<paths, padLen, ret, tasks, total_valid_tasks,
                   current_progress, tstate, events, stderr,
                   taskVars, pipeVars, cacheVars, fnVars>>

\* image_processing.rs:191-195: the join of the blocking task
MetadataProgressiveReturn ==
    /\ bpc \in {"joining", "unwound"}
    /\ bpc' = "returned"
    /\ ret' = IF bpc = "joining" THEN "Ok" ELSE "Err"
    /\ UNCHANGED <<paths, padLen, tasks, total_valid_tasks, current_progress,
                   tstate, events, stderr,
                   taskVars, pipeVars, cacheVars, fnVars>>

NextProgressive ==
    \/ MetadataProgressive
    \/ \E i \in 1..Len(tstate) :
        \/ ExtractImageInfo(i)
        \/ ProgressIncrement(i)
        \/ EmitMetadataProgress(i)
    \/ EmitMetadataComplete
    \/ ResumeUnwind
    \/ MetadataProgressiveReturn

(***************************************************************************)
(* image_processing.rs: the output path of a task (process_single_image,   *)
(* lines 522-575).  A source path is its folder, file stem and extension;  *)
(* an output path is the folder and the new file name.                     *)
(***************************************************************************)

SourcePath(dir, stem, ext) == [dir |-> dir, stem |-> stem, ext |-> ext]

\* the images the batch is run on: the same stem under two extensions and
\* in two folders, and another stem
SourcePaths ==
    {SourcePath("x", "a", "jpg"), SourcePath("x", "a", "png"),
     SourcePath("y", "a", "jpg"), SourcePath("x", "b", "jpg")}

OutputFormats == {"Jpeg", "Png", "Webp"}

OutputDestinations == {<<"SameFolder">>, <<"CustomFolder", "out">>}

\* image_processing.rs:523-527
new_extension(format) ==
    CASE format = "Jpeg" -> "jpg" [] format = "Png" -> "png"
      [] format = "Webp" -> "webp"

\* image_processing.rs:529-530: "{stem}-optimized.{new_extension}"
new_filename(path, format) == <<path.stem, "-optimized.", new_extension(format)>>

\* image_processing.rs:532-555: with_file_name in the folder of the source,
\* or join on the custom folder
output_path(path, format, destination) ==
    [dir |-> IF destination[1] = "SameFolder" THEN path.dir ELSE destination[2],
     name |-> new_filename(path, format)]

\* What encode_jpeg_fast makes of a source, as the walker of the metadata
\* copy reads it: SOI, the SOS segment, the scan, EOI.  The scans of the
\* first and third start with a byte that is not FF; the scan of the second
\* starts with a stuffed FF 00 and two bytes that read as the length of all
\* that is left of it.
encode_jpeg_fast(path) ==
    LET scan == IF path.ext = "png" THEN <<Item(TRUE, "other", 8, FALSE)>>
                ELSE IF path.dir = "y" THEN <<Byte, Byte>>
                ELSE <<Byte>>
        items == <<Sos>> \o scan \o <<Standalone>>
    IN  Jpeg(TRUE, Total(items), items)

\* the bytes of a PNG or WebP output: no JPEG, of a length of its own
Opaque(len) == Jpeg(FALSE, len, <<>>)

\* image_processing.rs:558-565
encoded_bytes(path, format) ==
    IF format = "Jpeg" THEN encode_jpeg_fast(path)
    ELSE Opaque(40 + (IF path.ext = "png" THEN 2 ELSE 0)
                   + (IF path.dir = "y" THEN 1 ELSE 0)
                   + (IF path.stem = "b" THEN 4 ELSE 0))

\* the size ImageTask::new read for the source
original_size(path) == 5000

\* image_processing.rs:578-582: saturating_sub, then the quotient by the
\* original size; the two numbers the percentage is the quotient of
reduction_percentage(original, optimized_size) ==
    IF original > 0
    THEN <<(IF original > optimized_size THEN original - optimized_size ELSE 0)
              * 100, original>>
    ELSE <<0, 1>>

\* image_processing.rs:612-618; a size in KB is bytes / 2^10
OptimizationResult(path, out, optimized_size) ==
    [original_path |-> path, optimized_path |-> out,
     original_size_kb |-> <<original_size(path), 10>>,
     optimized_size_kb |-> <<optimized_size, 10>>,
     reduction_percentage |->
        reduction_percentage(original_size(path), optimized_size)]

NoFile == Opaque(0)

RunR(s) == <<"Run", s>>

OutputOf(i) == output_path(arg.paths[i], arg.format, arg.destination)

\* optimize_images is run on a list of images, every one a valid task; the
\* output files do not exist yet and every task holds its encoded bytes.
InitOutput ==
    /\ arg \in [paths : UNION {[1..n -> SourcePaths] : n \in 1..MaxSiblings},
                format : OutputFormats, destination : OutputDestinations,
                preserve_all : BOOLEAN]
    /\ res = RunR([disk |-> [o \in {OutputOf(i) : i \in 1..Len(arg.paths)}
                               |-> NoFile],
                   task |-> [i \in 1..Len(arg.paths) |->
                               [pc |-> "encoded", optimized_size |-> 0,
                                result |-> NoneR]]])

\* Task i, at pc, leaves the disk and itself as given.
Step(i, pc, disk, task) ==
    /\ i \in 1..Len(arg.paths)
    /\ res[2].task[i].pc = pc
    /\ res' = RunR([disk |-> disk,
                    task |-> [res[2].task EXCEPT ![i] = task]])
    /\ UNCHANGED <<arg, coreVars>>

\* image_processing.rs:568-575: fs::write of the encoded bytes
WriteOutput(i) ==
    /\ arg # NoArg
    /\ Step(i, "encoded",
            [res[2].disk EXCEPT ![OutputOf(i)] =
                encoded_bytes(arg.paths[i], arg.format)],
            [res[2].task[i] EXCEPT !.pc = "written"])

\* image_processing.rs:577: fs::metadata(&output_path).len()
StatOutput(i) ==
    /\ arg # NoArg
    /\ Step(i, "written", res[2].disk,
            [res[2].task[i] EXCEPT
                !.pc = IF arg.preserve_all THEN "measured" ELSE "copied",
                !.optimized_size = res[2].disk[OutputOf(i)].len])

\* exif_writer.rs:15-62 as called at image_processing.rs:585-610: the EXIF
\* of the source is read or not; a jpg destination is read back, injected
\* and rewritten by write_jpeg_exif; png and webp are left as they are; an
\* Err is logged and nothing else
CopyExif(i) ==
    /\ arg # NoArg
    /\ \E source_exif_data \in {ErrR("no EXIF"), OkR(ExifData({})),
                             OkR(ExifData(Fields))} :
        LET options == [DefaultOptions EXCEPT !.preserve_all = arg.preserve_all]
            dest == res[2].disk[OutputOf(i)]
            wrote == IF source_exif_data[1] = "Ok" /\ arg.format = "Jpeg"
                     THEN write_jpeg_exif(dest, source_exif_data[2], options)
                     ELSE ErrR("not written")
        IN  Step(i, "measured",
                 IF wrote[1] = "Ok"
                 THEN [res[2].disk EXCEPT ![OutputOf(i)] = Written(wrote)]
                 ELSE res[2].disk,
                 [res[2].task[i] EXCEPT
                     !.pc = IF wrote = panic THEN "done" ELSE "copied",
                     !.result = IF wrote = panic THEN panic ELSE @])

\* image_processing.rs:612-618: the task completes with its result
ReturnResult(i) ==
    /\ arg # NoArg
    /\ Step(i, "copied", res[2].disk,
            [res[2].task[i] EXCEPT
                !.pc = "done",
                !.result = SomeR(OptimizationResult(arg.paths[i], OutputOf(i),
                                    res[2].task[i].optimized_size))])

NextOutput ==
    \E i \in 1..MaxSiblings :
        WriteOutput(i) \/ StatOutput(i) \/ CopyExif(i) \/ ReturnResult(i)

(***************************************************************************)
(* The specifications                                                      *)
(***************************************************************************)

TaskInit == InitTask /\ IdlePipeline /\ IdleBatch /\ IdleCache /\ IdleFn

SpecTask == TaskInit /\ [][Validate]_vars

PipelineInit == IdleTask /\ InitPipeline /\ IdleBatch /\ IdleCache /\ IdleFn

SpecPipeline == PipelineInit /\ [][NextPipeline]_vars

BatchInit == IdleTask /\ IdlePipeline /\ InitBatch /\ IdleCache /\ IdleFn

SpecBatch == BatchInit /\ [][NextBatch]_vars

CacheInit == IdleTask /\ IdlePipeline /\ IdleBatch /\ InitCache /\ IdleFn

SpecCache == CacheInit /\ [][NextCache]_vars

SpecBatchFair == SpecBatch /\ WF_vars(NextBatch)

IdleCore == IdleTask /\ IdlePipeline /\ IdleBatch /\ IdleCache

JpegIccInit == IdleCore /\ InitJpegIcc

SpecJpegIcc == JpegIccInit /\ [][ScanJpeg]_vars

DetectInit == IdleCore /\ InitDetect

SpecDetect == DetectInit /\ [][Detect]_vars

Ifd0Init == IdleCore /\ InitIfd0

SpecIfd0 == Ifd0Init /\ [][BuildIfd0]_vars

ExifInit == IdleCore /\ InitExif

SpecExif == ExifInit /\ [][WriteJpegExif]_vars

ColorInit == IdleCore /\ InitColor

SpecColor == ColorInit /\ [][ColorStage]_vars

ResizeInit == IdleCore /\ InitResize

SpecResize == ResizeInit /\ [][CalculateResize]_vars

SizeInit == IdleCore /\ InitSize

SpecSize == SizeInit /\ [][CheckSize]_vars

ExpandInit == IdleCore /\ InitExpand

SpecExpand == ExpandInit /\ [][NextExpand]_vars

ProgressiveInit == IdleCore /\ IdleFn

SpecProgressive == ProgressiveInit /\ [][NextProgressive]_vars

InjectInit == IdleCore /\ InitInject

SpecInject == InjectInit /\ [][InjectExifIntoJpeg]_vars

IccDescriptionInit == IdleCore /\ InitIccDescription

SpecIccDescription == IccDescriptionInit /\ [][ParseIccDescription]_vars

OutputInit == IdleCore /\ InitOutput

SpecOutput == OutputInit /\ [][NextOutput]_vars

(***************************************************************************)
(* The orchestrator                                                        *)
(***************************************************************************)

\* The valid entries of the path list, computed from the list itself.
ValidEntries == {i \in 1..Len(paths) : is_valid(ImageTask_new(FileOf(paths[i])))}

N == Cardinality(ValidEntries)

Succeeded == {i \in ValidEntries : tstate[i].pc = "done" /\ tstate[i].result = "Some"}

Counted == {i \in ValidEntries : tstate[i].pc \in {"counted", "done"}}

Accepted == bpc # "idle" /\ ~RejectsList(paths, padLen)

\* C1: a task that returns a failure or panics stops nothing: once the batch
\* has returned, every valid task has run to a terminal outcome, has been
\* counted, and has its event if it succeeded; and every accepted batch
\* does return.
C1_FaultIsolation ==
    /\ [](Accepted /\ bpc = "returned" =>
            /\ ret = "Ok"
            /\ \A i \in ValidEntries :
                /\ tstate[i].pc = "done"
                /\ tstate[i].result \in PipelineResults
                /\ tstate[i].current \in 1..N
                /\ tstate[i].result = "Some" =>
                      \E k \in 1..Len(events) :
                          /\ events[k].path = paths[i]
                          /\ events[k].current = tstate[i].current)
    /\ [](bpc # "idle" => <>(bpc = "returned"))

\* A batch has returned in which one task panicked, one returned a failure
\* and a third succeeded after both.
C1_Witness ==
    /\ bpc = "returned" /\ ret = "Ok"
    /\ \E i, j, k \in ValidEntries :
        /\ tstate[i].result = "panic"
        /\ tstate[j].result = "None"
        /\ tstate[k].result = "Some"
        /\ tstate[k].current = 3

\* C2: S events for S successes, each with total = N and a current in 1..N
\* of its own; the counter counts every completed valid task and ends at N;
\* when all succeed the currents are 1..N; no event names an Invalid path.
C2_ProgressCounts ==
    /\ \A k \in 1..Len(events) :
        /\ events[k].total = N
        /\ events[k].current \in 1..N
        /\ \E i \in ValidEntries : paths[i] = events[k].path
        /\ ~ \E i \in 1..Len(paths) \ ValidEntries : paths[i] = events[k].path
        /\ events[k].path # PadPath
        /\ \A l \in 1..Len(events) :
              l # k => events[l].current # events[k].current
    /\ Accepted => Len(events) = Cardinality(Succeeded)
    /\ Accepted => current_progress = Cardinality(Counted)
    /\ Accepted /\ bpc = "returned" =>
        /\ current_progress = N
        /\ Cardinality(Succeeded) = N =>
              {events[k].current : k \in 1..Len(events)} = 1..N

\* A list of two valid paths and an invalid one has returned with one task
\* failed and the event of the other emitted.
C2_Witness ==
    /\ bpc = "returned" /\ ret = "Ok"
    /\ N = 2
    /\ Len(paths) = 3
    /\ Len(events) = 1
    /\ events[1].current = 1
    /\ current_progress = 2

\* C3: the events are emitted in strictly increasing order of current, and
\* when all N tasks succeed the last event carries current = N.
C3_EventsInOrder ==
    /\ \A k \in 1..Len(events) - 1 : events[k].current < events[k + 1].current
    /\ bpc = "returned" /\ Accepted /\ Cardinality(Succeeded) = N /\ N > 0 =>
          events[Len(events)].current = N

\* What the caller can observe of path p: an event, or a line on stderr.
Reported(p) ==
    \/ \E k \in 1..Len(events) : events[k].path = p
    \/ \E l \in stderr : l.path = p

\* C4: when optimize_images has returned Ok, every path of the list has
\* been reported, as a success or with a failure reason.
C4_EveryPathReported ==
    bpc = "returned" /\ ret = "Ok" =>
        /\ \A i \in 1..Len(paths) : Reported(paths[i])
        /\ padLen > 0 => Reported(PadPath)

\* C6: optimize_images returns Err only for an empty list or one of more
\* than 10,000 paths, and then nothing was validated, started or emitted;
\* a list of 1 to 10,000 paths is accepted and returns Ok whatever its
\* tasks did; validate_paths rejects the same two lists.
C6_BatchRejection ==
    bpc # "idle" =>
        LET n == ListLen(paths, padLen) IN
        /\ ret = "Err" =>
            /\ n = 0 \/ n > 10000
            /\ tasks = <<>> /\ tstate = <<>> /\ total_valid_tasks = 0
            /\ events = <<>> /\ stderr = {} /\ current_progress = 0
        /\ n \in 1..10000 => ret # "Err"
        /\ n \in 1..10000 /\ bpc = "returned" => ret = "Ok"
        /\ n = 0 \/ n > 10000 => bpc = "returned" /\ ret = "Err"
        /\ n = 0 \/ n > 10000 => validate_paths(paths, padLen) # "Ok"

\* A list of exactly 10,000 paths has returned Ok though its one valid task
\* panicked.
C6_Witness ==
    /\ bpc = "returned" /\ ret = "Ok"
    /\ ListLen(paths, padLen) = 10000
    /\ \E i \in ValidEntries : tstate[i].result = "panic"

(***************************************************************************)
(* The pipeline                                                            *)
(***************************************************************************)

Ended == pstage = "end"

AllOk(S) == \A st \in S : penv[st] = "ok"

Last(tr) == tr[Len(tr)]

\* A failed colour conversion or metadata copy does not fail the task: the
\* run never ends on them unless it ends with a result, and after a failed
\* conversion the original pixels are the ones carried on.
Graceful ==
    /\ presult \in {"None", "panic"} => Last(ptrace) \notin {"convert", "exif"}
    /\ penv["convert"] = "error" => pimg = "original"
    /\ Ended /\ penv["exif"] = "error" => presult = "Some"

\* C5, as claimed: the run ends with a result whenever decode, resize,
\* encode and write succeeded, and conversion and metadata-copy failures
\* degrade gracefully.
C5_SuccessAsClaimed ==
    /\ Ended /\ AllOk({"decode", "resize", "encode", "write"}) => presult = "Some"
    /\ Graceful

\* What does hold: the run ends with a result whenever decode, resize,
\* encode, write and the read-back of the size of the output file succeeded,
\* and conversion and metadata-copy failures degrade gracefully.
SuccessGivenStat ==
    /\ Ended /\ AllOk({"decode", "resize", "encode", "write", "stat"}) =>
          presult = "Some"
    /\ Graceful

\* A run has ended with a result although the colour conversion and the
\* metadata copy both failed.
DegradedSuccess ==
    /\ Ended /\ presult = "Some"
    /\ penv["convert"] = "error" /\ penv["exif"] = "error"
    /\ pimg = "original"

\* The place of a stage in the order the specification gives; the read-back
\* of the output size, which it does not list, sits between write and copy.
StatedPlace(stage) ==
    CASE stage = "exists" -> 1 [] stage = "decode" -> 2 [] stage = "detect" -> 3
      [] stage = "convert" -> 4 [] stage = "resize" -> 5 [] stage = "encode" -> 6
      [] stage = "dest" -> 7 [] stage = "write" -> 8 [] stage = "stat" -> 9
      [] stage = "exif" -> 10

\* The same with the destination path ahead of the encoder.
SourcePlace(stage) ==
    CASE stage = "dest" -> 6 [] stage = "encode" -> 7
      [] OTHER -> StatedPlace(stage)

RequiredStages == {"exists", "decode", "detect", "resize", "dest", "encode",
                   "write", "stat"}

StageSucceeded(stage) ==
    CASE stage = "detect" -> penv[stage] \in ProfileAnswers \ {"fault"}
      [] stage = "dest" -> penv[stage] \in {"SameFolder", "CustomFolder"}
      [] OTHER -> penv[stage] = "ok"

\* C22 as amended: the stages of a task run in the order existence
\* re-check, decode, profile detection, colour conversion, resize,
\* destination path, encode, write, size read-back, metadata copy; a stage
\* runs only after every required stage before it has succeeded, and the
\* conversion only on a profile that is not web-safe.
C22_StagesInSourceOrder ==
    /\ \A j, k \in 1..Len(ptrace) :
        j < k => SourcePlace(ptrace[j]) < SourcePlace(ptrace[k])
    /\ \A k \in 1..Len(ptrace) : \A r \in RequiredStages :
        SourcePlace(r) < SourcePlace(ptrace[k]) =>
            /\ \E j \in 1..(k - 1) : ptrace[j] = r
            /\ StageSucceeded(r)
    /\ (\E k \in 1..Len(ptrace) : ptrace[k] = "convert") =>
            ~is_web_safe(penv["detect"])

C22_Witness ==
    /\ presult = "Some"
    /\ ptrace = Stages
    /\ penv["exif"] = "ok"

\* C22 as stated: the stages of a task run in the order existence re-check, decode,
\* profile detection, colour conversion, resize, encode, destination path,
\* write, metadata copy: a stage that ran never precedes a stage listed
\* before it.
C22_StagesInStatedOrder ==
    \A j, k \in 1..Len(ptrace) :
        j < k => StatedPlace(ptrace[j]) < StatedPlace(ptrace[k])

(***************************************************************************)
(* The validator                                                           *)
(***************************************************************************)

\* task.rs:152: the 8-byte signature; task.rs:146: FF D8 FF
SignatureMatches(f) == f.magic = f.ext

\* C7: ImageTask::new returns Valid exactly when the path has at most 4096
\* characters and names an existing readable regular file of 100 to
\* 1,000,000,000 bytes whose extension says JPEG or PNG and whose leading
\* bytes are that format's signature; error_reason is Some exactly when
\* is_valid is false.
C7_ValidIffAsClaimed ==
    vtask # NoTask =>
        /\ is_valid(vtask) <=>
            /\ vfile.shape.chars <= 4096
            /\ vfile.exists /\ vfile.is_file /\ vfile.metadata
            /\ vfile.readable
            /\ vfile.size >= 100 /\ vfile.size <= 1000000000
            /\ vfile.ext \in {"Jpeg", "Png"}
            /\ SignatureMatches(vfile)
        /\ vtask.kind \in {"Valid", "Invalid"}
        /\ Len(error_reason(vtask)) = 1 <=> ~is_valid(vtask)

\* The same with the length of the path counted in bytes of UTF-8, as
\* str::len counts it.
ValidIffInBytes ==
    vtask # NoTask =>
        /\ is_valid(vtask) <=>
            /\ vfile.shape.bytes <= 4096
            /\ vfile.exists /\ vfile.is_file /\ vfile.metadata
            /\ vfile.readable
            /\ vfile.size >= 100 /\ vfile.size <= 1000000000
            /\ vfile.ext \in {"Jpeg", "Png"}
            /\ SignatureMatches(vfile)
        /\ vtask.kind \in {"Valid", "Invalid"}
        /\ Len(error_reason(vtask)) = 1 <=> ~is_valid(vtask)

(***************************************************************************)
(* The thumbnail cache                                                     *)
(***************************************************************************)

SevenDays == 7 * 24 * 60 * 60

Returned(w) == calls[w].pc = "returned"

ReturnedOk(w) == Returned(w) /\ calls[w].ret # Err

SourceOf(w) == canonicalize(calls[w].path)

\* The source of w's call has not been modified since the call looked it up.
Unmodified(w) == srcMtime[SourceOf(w)] = calls[w].seen1

\* The call of w came after a call on the same source had returned the
\* path prev[1], ran with no other call in progress, and found the source
\* with the modification time prev[2] that call had read.
Consecutive(w) ==
    /\ Returned(w)
    /\ calls[w].alone
    /\ calls[w].prev # NoKey
    /\ calls[w].prev[2] = calls[w].seen1

Quiescent == \A w \in CacheWorkers : ~Active(w)

\* The file of key k is in the cache directory, written to its end.
Complete(k) ==
    /\ k \in DOMAIN cacheFiles
    /\ cacheFiles[k].complete
    /\ cacheFiles[k].writers = {}

\* C8: the second of two consecutive calls on the same unmodified source
\* finds the entry of the first, and when that entry is within the
\* retention window it returns the same path with no decode, encode or
\* write.
C8_Idempotence ==
    \A w \in CacheWorkers :
        Consecutive(w) =>
            /\ calls[w].age >= 0
            /\ calls[w].age <= SevenDays =>
                /\ calls[w].ret = <<"Ok", calls[w].prev[1]>>
                /\ calls[w].work = {}
                /\ Complete(calls[w].prev[1])

\* A second call has been answered from the cache, a clock tick after the
\* first call wrote the entry.
C8_Witness ==
    \E w, u \in CacheWorkers :
        /\ w # u
        /\ Consecutive(w)
        /\ calls[w].work = {}
        /\ calls[w].age > 0
        /\ calls[w].ret = calls[u].ret
        /\ "write" \in calls[u].work

\* C9: a lookup that finds the cache file answers a hit exactly when the
\* age of the file is at most 7 days; an older file is deleted and the
\* lookup is a miss, and the call then writes the thumbnail again at the
\* same path.
C9_Expiry ==
    \A w \in CacheWorkers :
        LET c == calls[w] IN
        c.age >= 0 =>
            /\ c.age <= SevenDays <=>
                  (Returned(w) /\ c.work = {} /\ c.ret = <<"Ok", c.key1>>)
            /\ c.age > SevenDays <=> c.expired
            /\ c.age > SevenDays =>
                /\ c.pc \in {"remove", "generate", "open", "write", "returned"}
                /\ c.pc = "generate" /\ c.alone => c.key1 \notin DOMAIN cacheFiles
                /\ c.pc \in {"generate", "open", "write"} => "write" \notin c.work
                /\ Returned(w) /\ Decodable(SourceOf(w)) =>
                    /\ {"decode", "resize", "encode", "write"} \subseteq c.work
                    /\ c.ret = <<"Ok", c.key>>
                    /\ Unmodified(w) => c.ret = <<"Ok", c.key1>>
                    /\ c.alone /\ Quiescent =>
                          Complete(c.key) /\ cacheFiles[c.key].mtime > SevenDays

\* One lookup has hit an entry exactly 7 days old, and a second later has
\* found it expired and written it again at the same path.
C9_Witness ==
    \E w, u \in CacheWorkers :
        /\ Returned(w) /\ calls[w].age = SevenDays /\ calls[w].work = {}
        /\ Returned(u) /\ calls[u].age = SevenDays + 1 /\ calls[u].expired
        /\ "write" \in calls[u].work
        /\ calls[u].ret = calls[w].ret
        /\ Complete(calls[u].key)

\* The entry of key k differs before and after the step.
Changed(k) ==
    \/ (k \in DOMAIN cacheFiles) # (k \in DOMAIN cacheFiles')
    \/ /\ k \in DOMAIN cacheFiles /\ k \in DOMAIN cacheFiles'
       /\ cacheFiles[k] # cacheFiles'[k]

\* No other call is or was on the source of w's call.
OwnSource(w) ==
    \A u \in CacheWorkers \ {w} :
        calls[u].path # None => SourceOf(u) # SourceOf(w)

CallsSafe ==
    \A w \in CacheWorkers :
        ReturnedOk(w) =>
            /\ calls[w].ret = <<"Ok", calls[w].key>>
            /\ calls[w].key[1] = SourceOf(w)
            /\ OwnSource(w) => Complete(calls[w].key)
            /\ \A u \in CacheWorkers :
                  ReturnedOk(u) /\ calls[u].key1 = calls[w].key1
                  /\ Unmodified(u) /\ Unmodified(w) =>
                      calls[u].ret = calls[w].ret
            /\ Quiescent /\ Unmodified(w) => Complete(calls[w].key)

\* C10: a step of a call changes only entries of that call's source; a
\* call returns the path of its own key, with the file in place when no
\* other call is on that source; calls on the same key return the same
\* path, and once all calls have returned a complete file is at that path.
C10_ConcurrentCalls ==
    /\ [][\A k \in DOMAIN cacheFiles \cup DOMAIN cacheFiles' :
              Changed(k) =>
                  \E w \in CacheWorkers :
                      calls[w] # calls'[w] /\ SourceOf(w) = k[1]]_vars
    /\ []CallsSafe

\* Two calls have raced on the expired entry of one source, one removing
\* what the other had just written, and both have returned the same path.
C10_Witness ==
    \E w, u \in CacheWorkers :
        /\ w # u /\ Quiescent
        /\ ReturnedOk(w) /\ ReturnedOk(u)
        /\ calls[w].expired /\ calls[u].expired
        /\ ~calls[w].alone
        /\ calls[w].key1 = calls[u].key1
        /\ calls[w].ret = calls[u].ret
        /\ Complete(calls[w].key)


(***************************************************************************)
(* The colour-profile inspector                                            *)
(***************************************************************************)

Called == res # NoRes

\* A round of the JPEG loop reads an APP2 segment that lies within the
\* buffer, begins with ICC_PROFILE and holds a profile with a desc tag.
CompleteIccSegment(d) ==
    \E i \in 1..Len(d.segs) :
        /\ d.segs[i].marker = "APP2" /\ d.segs[i].icc
        /\ d.segs[i].length + 4 <= d.len
        /\ \E k \in 1..Len(d.profile.tags) : d.profile.tags[k].sig = "desc"

\* C11: on every buffer that begins FF D8, extract_jpeg_icc_profile
\* returns without a fault, and returns None unless a complete APP2
\* ICC_PROFILE segment with a description is there.
C11_JpegScanSafe ==
    Called =>
        /\ res # panic
        /\ res \in {NoneR} \cup {SomeR(n) : n \in Names}
        /\ res # NoneR => CompleteIccSegment(arg)

\* The first chunk of a PNG is an iCCP chunk whose length runs past the end
\* of the data.
OverlongIccp(d) ==
    /\ d.readable /\ d.kind = "png" /\ d.len > 16
    /\ Len(d.chunks) >= 1
    /\ d.chunks[1].type = "iCCP"
    /\ 16 + d.chunks[1].chunk_length > d.len

\* The first segment of a JPEG is an ICC_PROFILE segment whose desc tag has
\* text length 0.
EmptyDescription(d) ==
    /\ d.readable /\ d.kind = "jpeg" /\ d.len = 210
    /\ Len(d.segs) >= 1
    /\ d.segs[1] = Seg(TRUE, "APP2", 206, TRUE)
    /\ d.profile.tag_count = 1
    /\ d.profile.tags[1].text_length = 0

\* C12: on every file detect_color_profile returns a ColorProfile without
\* a fault; a PNG chunk that runs past the data and a description of text
\* length 0 give no profile, and the file is classified sRGB.
C12_DetectNeverFaults ==
    Called =>
        /\ res # panic
        /\ res[1] \in {"Srgb", "AdobeRgb", "DisplayP3", "ProPhotoRgb", "Unknown"}
        /\ OverlongIccp(arg) \/ EmptyDescription(arg) => res = <<"Srgb">>

\* The profile the ordered rules give each name.
Expected(n) ==
    CASE n \in {sRGB_name, AdobeSrgb_name}            -> <<"Srgb">>
      [] n \in {AdobeRgb_name, ProPhotoAdobe_name}    -> <<"AdobeRgb">>
      [] n \in {DisplayP3_name, P3ProPhoto_name}      -> <<"DisplayP3">>
      [] n = ProPhoto_name                            -> <<"ProPhotoRgb">>
      [] OTHER                                        -> <<"Unknown", n>>

\* C16: detect_color_profile returns Srgb when no profile name is extracted
\* (unreadable file, unrecognized type, no embedded profile); otherwise the
\* first match of the lower-cased name against srgb, adobe+rgb,
\* display+p3, prophoto, and Unknown with the original name when none
\* matches.
C16_Classification ==
    Called =>
        LET name == extract_icc_profile_name(arg) IN
        /\ ~arg.readable => res = <<"Srgb">>
        /\ arg.readable /\ arg.kind = "other" => res = <<"Srgb">>
        /\ arg.readable /\ name = NoneR => res = <<"Srgb">>
        /\ arg.readable /\ name \notin {NoneR, panic} =>
              /\ name[2] \in Names
              /\ res = Expected(name[2])

\* A JPEG whose description names ProPhoto and Adobe RGB has been
\* classified AdobeRgb.
C16_Witness ==
    /\ Called
    /\ arg.readable /\ arg.kind = "jpeg"
    /\ extract_icc_profile_name(arg) = SomeR(ProPhotoAdobe_name)
    /\ res = <<"AdobeRgb">>


\* The desc entries the loop over the tag table reaches in a buffer of len
\* bytes.
DescEntries(len, p) ==
    {i \in 1..Len(p.tags) :
        /\ i <= p.tag_count
        /\ 132 + 12 * i <= len
        /\ p.tags[i].sig = "desc"}

\* The record of the entry is in range and holds a text length N >= 1, then
\* N - 1 bytes of text and a null.
SoundDescription(len, t) ==
    /\ t.tag_offset + t.tag_size <= len
    /\ t.text_length >= 1
    /\ t.text_length = Len(t.name) + 1
    /\ 12 + t.text_length <= t.tag_size
    /\ t.utf8

\* C25: on a buffer of at least 132 bytes whose tag table holds a desc
\* entry (the first of that signature the table holds) with an in-range
\* record of text length N >= 1, N - 1 bytes of text and a null,
\* parse_icc_description returns exactly those N - 1 bytes.
C25_DescriptionText ==
    Called /\ arg.len >= 132 =>
        \A i \in DescEntries(arg.len, arg.profile) :
            /\ \A j \in DescEntries(arg.len, arg.profile) : i <= j
            /\ SoundDescription(arg.len, arg.profile.tags[i])
            => res = SomeR(arg.profile.tags[i].name)

\* a description of four bytes behind another tag, and the empty one
C25_Witness ==
    /\ Called
    /\ DescEntries(arg.len, arg.profile) = {2}
    /\ SoundDescription(arg.len, arg.profile.tags[2])
    /\ res = SomeR(sRGB_name)

C25_WitnessEmpty ==
    /\ Called
    /\ DescEntries(arg.len, arg.profile) = {1}
    /\ SoundDescription(arg.len, arg.profile.tags[1])
    /\ arg.profile.tags[1].text_length = 1
    /\ res = SomeR(EmptyName)

(***************************************************************************)
(* The metadata writer                                                     *)
(***************************************************************************)
\* the positions, counted from the start-of-image marker, of the APP1
\* segments whose payload begins with the Exif identifier
ExifSegments(items) ==
    {k \in 1..Len(items) :
        /\ items[k].ff
        /\ items[k].marker = "APP1"
        /\ items[k].exif
        /\ items[k].length >= 8}

\* C13: after a successful write_jpeg_exif the destination holds exactly
\* one APP1 Exif segment, and it is the first thing after the
\* start-of-image marker, whatever the destination held before and however
\* many times the write has been done.
C13_SingleExifSegment ==
    Called /\ res[1] = "Ok" => ExifSegments(arg.dest.items) = {1}

TagOf(f) ==
    CASE f = "camera_make" -> TAG_MAKE
      [] f = "camera_model" -> TAG_MODEL
      [] f = "lens_model" -> TAG_LENS_MODEL
      [] f = "iso" -> TAG_ISO
      [] f = "date_taken" -> TAG_DATETIME
      [] f = "orientation" -> TAG_ORIENTATION
      [] f = "gps_latitude" -> TAG_GPS_INFO
      [] f = "gps_longitude" -> TAG_GPS_INFO
      [] f = "artist" -> TAG_ARTIST
      [] f = "copyright" -> TAG_COPYRIGHT
      [] f = "software" -> TAG_SOFTWARE

\* the entries of the returned vector that carry the tag
Entries(tag) == {k \in 1..Len(res[2]) : res[2][k].tag = tag}

Has(tag) == Entries(tag) # {}

\* C14: the vector build_ifd0_entries returns has no GPS entry when
\* strip_gps is set, has an Artist or a Copyright entry only if
\* preserve_copyright is set and the source has the field, and has a
\* Software entry exactly if update_software is set, made of the tool's
\* identity string (in the stored form: its length plus one as the count,
\* its first three bytes and a null as the value) and not of the source's
\* Software value.
C14_PolicyGating ==
    Called =>
        /\ arg.options.strip_gps => ~Has(TAG_GPS_INFO)
        /\ \A f \in {"artist", "copyright"} :
               Has(TagOf(f)) =>
                   arg.options.preserve_copyright /\ IsSome(arg.data[f])
        /\ Has(TAG_SOFTWARE) <=> arg.options.update_software
        /\ \A k \in Entries(TAG_SOFTWARE) :
               /\ res[2][k].type = TYPE_ASCII
               /\ res[2][k].count = Len(IRON_SOFTWARE) + 1
               /\ res[2][k].value = <<"I", "r", "o", Zero>>

C14_Witness ==
    /\ Called
    /\ arg.options.strip_gps /\ arg.options.preserve_all
    /\ IsSome(arg.data.gps_latitude)
    /\ arg.options.preserve_copyright /\ arg.options.update_software
    /\ IsSome(arg.data.artist) /\ ~IsSome(arg.data.copyright)
    /\ IsSome(arg.data.software)
    /\ Has(TAG_ARTIST) /\ Has(TAG_SOFTWARE) /\ ~Has(TAG_COPYRIGHT)

\* C15: every recognized field the source has (make, model, lens,
\* orientation, ISO, capture date, and the GPS fields unless strip_gps is
\* set) has an entry in the vector build_ifd0_entries returns, whatever the
\* other flags are.
C15_PresentFieldsWritten ==
    Called =>
        /\ \A f \in {"camera_make", "camera_model", "lens_model",
                     "orientation", "iso", "date_taken"} :
               IsSome(arg.data[f]) => Has(TagOf(f))
        /\ \A f \in {"gps_latitude", "gps_longitude"} :
               IsSome(arg.data[f]) /\ ~arg.options.strip_gps
                   => Has(TagOf(f))


\* SOI, then marker segments with sound lengths of which the last is the
\* SOS segment, then entropy-coded bytes, then EOI, and nothing cut off
WellFormed(d) ==
    /\ d.soi
    /\ d.len = Total(d.items)
    /\ \E n \in 1..Len(d.items) :
        /\ \A k \in 1..n :
            /\ d.items[k].ff /\ d.items[k].marker # "standalone"
            /\ d.items[k].length >= (IF d.items[k].exif THEN 8 ELSE 2)
        /\ d.items[n].marker = "other"
        /\ n + 1 < Len(d.items)
        /\ \A k \in (n + 1)..(Len(d.items) - 1) : d.items[k] = Byte
        /\ d.items[Len(d.items)] = Standalone

OldExif(s) == s.ff /\ s.marker = "APP1" /\ s.exif

Kept(s) == ~OldExif(s)

\* C23: on a well-formed JPEG inject_exif_into_jpeg succeeds and returns SOI,
\* the new segment, then everything of the original after SOI in its order
\* except the old APP1 Exif segments.
C23_InjectedIntoWellFormed ==
    Called /\ WellFormed(arg.jpeg_data) =>
        /\ res[1] = "Ok"
        /\ res[2] = <<arg.exif_segment>> \o SelectSeq(arg.jpeg_data.items, Kept)

\* Up to the SOS segment the walk does as stated.
WalksTheSegments ==
    Called /\ res[1] = "Ok" /\ arg.jpeg_data.len = Total(arg.jpeg_data.items)
           /\ (\A k \in 1..Len(arg.jpeg_data.items) :
                 OldExif(arg.jpeg_data.items[k]) => k < Len(arg.jpeg_data.items))
        => res[2] = <<arg.exif_segment>> \o SelectSeq(arg.jpeg_data.items, Kept)

\* C27: on every input that starts with FF D8, cut anywhere and with any
\* length fields, inject_exif_into_jpeg returns a buffer or an error value.
C27_InjectNeverFaults ==
    Called /\ arg.jpeg_data.soi /\ arg.jpeg_data.len >= 2 =>
        res[1] \in {"Ok", "Err"}

\* The bytes of an entry: tag (u16), type (u16), count (u32), value field.
EntryBytes(e) == 2 + 2 + 4 + Len(e.value)

\* C24: every entry build_ifd0_entries returns, ASCII of any length or
\* SHORT, is exactly 12 bytes, and the entries come in strictly ascending
\* tag order, no tag twice, for every ExifData and every ExifOptions.
C24_EntriesTwelveBytesAscending ==
    Called =>
        /\ \A k \in 1..Len(res[2]) : EntryBytes(res[2][k]) = 12
        /\ \A k \in 1..(Len(res[2]) - 1) : res[2][k].tag < res[2][k + 1].tag

\* every field written: the empty string, short and long strings, shorts
C24_Witness ==
    /\ Called
    /\ Len(res[2]) = 8
    /\ \E k \in 1..Len(res[2]) : res[2][k].type = TYPE_ASCII /\ res[2][k].count = 1
    /\ \E k \in 1..Len(res[2]) : res[2][k].type = TYPE_ASCII /\ res[2][k].count > 4
    /\ \E k \in 1..Len(res[2]) : res[2][k].type = TYPE_SHORT

\* C30: in every ASCII entry the count is the number of value bytes the
\* entry stores, the string and its terminating null, so that the string is
\* read from the value field of the entry.
C30_CountIsStoredBytes ==
    Called =>
        \A k \in 1..Len(res[2]) :
            res[2][k].type = TYPE_ASCII =>
                /\ res[2][k].count <= Len(res[2][k].value)
                /\ res[2][k].value[res[2][k].count] = Zero

(***************************************************************************)
(* The colour stage                                                        *)
(***************************************************************************)
\* C17: for a source profile classified Unknown the colour stage builds no
\* transform and hands on the image it was given, pixels and variant
\* unchanged, and does not fail the task.
C17_UnknownIsLeftAlone ==
    Called /\ arg.color_profile[1] = "Unknown" =>
        /\ res[1] = "Ok"
        /\ ~res[2].transform
        /\ res[2].img = arg.img


(***************************************************************************)
(* The resize law                                                          *)
(***************************************************************************)
\* C18: calculate_resize returns None exactly if the preset has no target
\* or the original fits the target in both dimensions; otherwise it
\* returns the original scaled by the smaller of target_w / w and
\* target_h / h: the dimension that limits the scale is the target's, the
\* other one is the original's times that ratio, rounded down.
C18_ResizeLaw ==
    Called =>
        LET dims == dimensions(arg.preset)
            w == arg.width
            h == arg.height
        IN  /\ res = NoneR <=>
                   \/ dims = NoneR
                   \/ (w <= dims[2][1] /\ h <= dims[2][2])
            /\ res # NoneR =>
                   LET tw == dims[2][1]
                       th == dims[2][2]
                   IN  /\ tw * h <= th * w =>
                              res[2] = <<tw, (h * tw) \div w>>
                       /\ th * w <= tw * h =>
                              res[2] = <<(w * th) \div h, th>>


\* C28: when calculate_resize returns Some((w', h')), both are at least 1
\* and at most the target and the original dimension, for every original
\* of at least 1x1 and every preset, Custom included.
C28_ResizedWithinBounds ==
    Called /\ res # NoneR =>
        LET target_dims == dimensions(arg.preset)[2] IN
        /\ 1 <= res[2][1] /\ 1 <= res[2][2]
        /\ res[2][1] <= target_dims[1] /\ res[2][1] <= arg.width
        /\ res[2][2] <= target_dims[2] /\ res[2][2] <= arg.height

\* The upper half of it: never above the target, never upscaled.
NeverUpscaled ==
    Called /\ res # NoneR =>
        LET target_dims == dimensions(arg.preset)[2] IN
        /\ res[2][1] <= target_dims[1] /\ res[2][1] <= arg.width
        /\ res[2][2] <= target_dims[2] /\ res[2][2] <= arg.height

\* With a target of at least 1x1, a zero needs an aspect ratio that leaves
\* less than one pixel.
ZeroOnlyWhenBelowOnePixel ==
    Called /\ res # NoneR =>
        LET target_dims == dimensions(arg.preset)[2]
            tw == target_dims[1]
            th == target_dims[2]
        IN  tw >= 2 /\ th >= 2 /\ (res[2][1] = 0 \/ res[2][2] = 0) =>
                \/ arg.height * tw < arg.width
                \/ arg.width * th < arg.height

(***************************************************************************)
(* The size limits                                                         *)
(***************************************************************************)
\* C19: a file whose size is below 100 bytes or above 1,000,000,000 bytes
\* is rejected by ImageTask::new, by validate_file_size and by the
\* metadata discovery alike.
C19_SizeLimitsAgree ==
    Called /\ (arg.size < 100 \/ arg.size > 1000000000) =>
        /\ ~res[2].task
        /\ ~res[2].validator
        /\ ~res[2].discovery


(***************************************************************************)
(* The directory expansion                                                 *)
(***************************************************************************)
\* the paths the expansion is to find: the regular files with a supported
\* extension that are a path of the list or lie at most ten levels below
\* one (files above the size limit are skipped)
Findable ==
    {n.path : n \in {m \in Tree :
        /\ m.kind = "file"
        /\ Extension(m.path[Len(m.path)]) \in SupportedExtensions
        /\ m.size <= METADATA_MAX_FILE_SIZE
        /\ \E i \in 1..Len(arg.paths) :
               /\ arg.paths[i] # <<>>
               /\ IsPrefix(arg.paths[i], m.path)
               /\ Len(m.path) - Len(arg.paths[i]) <= 10}}

WalksBulk == \E i \in 1..Len(arg.paths) : arg.paths[i] = <<"r">>

Terminals == {k \in 1..Len(events) : events[k].event = "metadata-complete"}

Progresses == {k \in 1..Len(events) : events[k].event = "metadata-progress"}

Extracted == {i \in 1..Len(tstate) : tstate[i].result = "Ok"}

BatchRan == ~SkipsBatch(paths, padLen) /\ ~TooManyFiles(paths, padLen)

\* The terminal event is never doubled and nothing follows it.
CompleteIsLast ==
    /\ Cardinality(Terminals) <= 1
    /\ \A k \in Terminals : k = Len(events)

\* A batch in which no extraction panics ends with the terminal event after
\* one progress event per extracted file.
CompleteWithoutPanic ==
    (bpc = "returned" /\ BatchRan /\ ~Panicked) =>
        /\ Cardinality(Terminals) = 1
        /\ Cardinality(Progresses) = Cardinality(Extracted)
        /\ ret = "Ok"

\* C21: when get_image_metadata_progressive has returned from a batch it
\* ran, 'metadata-complete' has been emitted exactly once, as the last
\* event, after one 'metadata-progress' event per extracted file, whatever
\* the extraction of the single files did.
C21_CompleteOncePerBatch ==
    (bpc = "returned" /\ BatchRan) =>
        /\ Cardinality(Terminals) = 1
        /\ Terminals = {Len(events)}
        /\ Cardinality(Progresses) = Cardinality(Extracted)

\* optimize_images returns only when every valid task is done, which is
\* after its progress event if it has one.
ReturnsAfterEveryTask ==
    (bpc = "returned" /\ ret = "Ok") =>
        /\ AllDone
        /\ Len(events) =
             Cardinality({i \in ValidTasks(tasks) : tstate[i].result = "Some"})


(***************************************************************************)
(* The output files                                                        *)
(***************************************************************************)

Wrote == {i \in 1..Len(arg.paths) : res[2].task[i].pc # "encoded"}

\* C26: within a batch no two tasks write the same output path, whatever
\* the entries of the list (the same stem under another extension or in
\* another folder, the same entry twice) and the destination.
C26_OutputPathsDiffer ==
    \A i, j \in Wrote : i # j => OutputOf(i) # OutputOf(j)

\* Entries that differ in folder or stem do not meet in the source folder.
OutputsDifferInSameFolder ==
    arg.destination[1] = "SameFolder" =>
        \A i, j \in Wrote :
            arg.paths[i].dir # arg.paths[j].dir
            \/ arg.paths[i].stem # arg.paths[j].stem
            => OutputOf(i) # OutputOf(j)

Completes(i) ==
    /\ i \in 1..Len(arg.paths)
    /\ res[2].task[i].pc = "copied"
    /\ res'[2].task[i].pc = "done"

\* C29: when a task completes, the output size of its OptimizationResult,
\* and the reduction computed from it, are those of the output file as it
\* is on disk then, also when the metadata copy has rewritten the file.
C29_ReportedSizeIsOnDisk ==
    [][\A i \in 1..MaxSiblings :
        Completes(i) =>
            LET on_disk == res'[2].disk[OutputOf(i)].len
                result == res'[2].task[i].result[2]
            IN  /\ result.optimized_size_kb = <<on_disk, 10>>
                /\ result.reduction_percentage =
                       reduction_percentage(original_size(arg.paths[i]),
                                            on_disk)]_vars

\* A task that runs alone and copies no metadata reports the size on disk.
AloneAndUncopied ==
    [][\A i \in 1..MaxSiblings :
        Completes(i) /\ Len(arg.paths) = 1 /\ ~arg.preserve_all =>
            res'[2].task[i].result[2].optimized_size_kb =
                <<res'[2].disk[OutputOf(i)].len, 10>>]_vars

\* The metadata copy has rewritten the file of a task that runs alone.
RewrittenAlone ==
    /\ Len(arg.paths) = 1
    /\ res[2].task[1].pc = "copied"
    /\ res[2].disk[OutputOf(1)].len > res[2].task[1].optimized_size

====
